---- MODULE Spec2Model ----
(***************************************************************************)
(* HealChain aggregator: elliptic-curve primitives, signed bounded BSGS,  *)
(* NDD-FE decryption, secure aggregation, aggregate verification,         *)
(* submission collection, candidate block building, feedback collection   *)
(* and the majority rule, modelled from src/aggregator/src.               *)
(*                                                                         *)
(* The curve group is modelled as the cyclic group of prime order N: the  *)
(* point k*G is the integer k in 1..N-1.  The value tinyec returns for    *)
(* P + (-P) and for 0*P is its Inf object (Inf, 0), which is not Python's *)
(* None (None, -1).  A raised exception is a negative code.               *)
(***************************************************************************)
EXTENDS Integers, Sequences, FiniteSets, TLC

VARIABLES
    value,        \* test_bsgs: the integer x of the round trip
    other,        \* test_bsgs: the second integer y of the additive test
    point,        \* test_bsgs: the point handed to recover_discrete_log
    recovered,    \* test_bsgs: result of recover_discrete_log
    bsgs_pc,      \* test_bsgs: position of the BSGS test procedure
    deltas,       \* miners' plaintext quantized vectors v_i (miner side)
    mask,         \* discrete log r of the miners' base mask g^r (miner side)
    submissions,  \* validated submissions handed to aggregation
    weights,      \* TaskState.weights
    skA,          \* KeyManager.skA
    skFE,         \* KeyManager.skFE
    pkTP,         \* KeyManager.pkTP
    decrypted,    \* result of ndd_fe_decrypt
    aggregate,    \* result of secure_aggregate
    milestones,   \* ProgressTracker marks
    agg_error,    \* exception that left the aggregation step, "" if none
    agg_pc,       \* which aggregation procedure ran
    feedbacks,            \* has_majority: the feedback list
    total_participants,   \* has_majority: expected voters
    tolerable_fault_rate, \* has_majority: f, in units of 1 / RateDen
    accepted,             \* has_majority: "True", "False" or the exception
    batch,                \* collector: raw submissions received from the backend
    min_participants,     \* collector: minimum number of valid submissions
    max_participants,     \* collector: cap on accepted submissions, 0 for None
    collected,            \* collector: result of collect_and_validate_submissions
    orderings,            \* candidate: the accepted submissions in two orders
    accuracy,             \* candidate: evaluated accuracy, in units of 10^-9
    clock,                \* candidate: time.time() in whole seconds
    blocks,               \* candidate: the block built from each ordering
    seen_miners,          \* feedback: miner keys whose feedback was accepted
    last_batch,           \* feedback: the batch of the latest poll
    elapsed,              \* feedback: time.time() - start_time, in half seconds
    timeout,              \* feedback: time window, in half seconds
    fb_pc,                \* feedback: "polling" inside the loop, then "returned"
    fb_hash,              \* feedback: hash of the candidate under review
    run_pc,               \* run(): the step the orchestrator is at
    status,               \* TaskState.status
    progress,             \* ProgressTracker._order
    sent,                 \* calls made on BackendSender, in order
    candidate,            \* run(): the candidate block, <<>> before it is built
    wait_elapsed,         \* _wait_for_submissions: time.time() - start, seconds
    run_error,            \* exception that left run(), "" if none
    requests,             \* api_service: POST /api/aggregate requests and their threads
    running_aggregators,  \* api_service: task id -> registered thread, 0 if absent
    environ,              \* os.environ: TASK_ID and AGGREGATOR_ADDRESS
    participants,         \* TaskState.participants
    round,                \* TaskState.round
    ver_points,           \* recovered_points handed to verify_recovered_aggregate
    ver_result,           \* what verify_recovered_aggregate returned or raised
    sparse_raw,           \* a raw submission handed to _normalize_submission
    sparse_out,           \* what _normalize_submission returned for it
    key_env,              \* os.environ: the key variables KeyManager.load reads
    pkA,                  \* KeyManager.pkA
    key_status,           \* KeyManager.load: "pending", "ok" or the exception
    model_weights,        \* weights of the object state.current_model refers to
    eval_input,           \* _update_and_evaluate: aggregate and evaluator outcome
    eval_status,          \* _update_and_evaluate: "pending", "ok" or the exception
    msg_subs,             \* two submissions that passed structural validation
    msg_bytes             \* their canonical signing messages

bsgsVars == <<value, other, point, recovered, bsgs_pc>>
aggInputs == <<deltas, mask, submissions, weights, skA, skFE, pkTP>>
aggVars == <<deltas, mask, submissions, weights, skA, skFE, pkTP,
             decrypted, aggregate, milestones, agg_error, agg_pc>>

majVars == <<feedbacks, total_participants, tolerable_fault_rate, accepted>>

colVars == <<batch, min_participants, max_participants, collected>>

candVars == <<orderings, accuracy, clock, blocks>>

fbVars == <<seen_miners, last_batch, elapsed, timeout, fb_pc, fb_hash>>

runVars == <<run_pc, status, progress, sent, candidate, wait_elapsed, run_error>>

apiVars == <<requests, running_aggregators, environ>>

taskVars == <<participants, round>>

verVars == <<ver_points, ver_result>>

sparseVars == <<sparse_raw, sparse_out>>

keyVars == <<key_env, pkA, key_status>>

evalVars == <<model_weights, eval_input, eval_status>>

msgVars == <<msg_subs, msg_bytes>>

unitVars == <<sparseVars, keyVars, evalVars, msgVars>>

orchVars == <<runVars, apiVars, taskVars, verVars, unitVars>>

vars == <<bsgsVars, aggVars, majVars, colVars, candVars, fbVars, orchVars>>

coreVars == <<bsgsVars, aggVars, majVars, colVars, candVars, fbVars,
              runVars, apiVars, taskVars, verVars>>

----------------------------------------------------------------------------
(* Bounds of the model *)

MaxGrad == 9          \* scaled-down MAX_GRAD * QUANTIZATION_SCALE
Extra == 3            \* how far outside the bound the BSGS inputs go
MaxMiners == 2        \* submissions per aggregation
MaxDim == 2           \* gradient coordinates per submission
MaxDelta == 1         \* |v_i[j]| of the enumerated miner vectors
MaxWeight == 2        \* largest aggregation weight y_i
MaxMask == 3          \* largest discrete log r of the miners' base mask
MaxVoters == 4        \* largest total_participants of a majority decision
MaxFeedback == 4      \* longest feedback list of a majority decision
MaxBatch == 3         \* raw submissions in one collector call
MaxCand == 3          \* submissions a candidate block is built from
MaxClock == 2         \* seconds the clock may advance between two builds
MaxFbBatch == 2       \* feedback entries in one poll
MaxTimeout == 3       \* longest feedback window, in half seconds
MaxRequests == 2      \* POST /api/aggregate requests
MaxRound == 3         \* highest round a TaskState counts to
MaxWait == 3          \* scaled-down AGGREGATION_TIMEOUT, in seconds
MaxSparse == 3        \* largest totalSize of a sparse submission
MaxNonzero == 2       \* longest nonzeroIndices and sparse ciphertext lists

----------------------------------------------------------------------------
(* config/limits.py, config/curve.py *)

BSGS_MAX_BOUND == MaxGrad
BSGS_MIN_BOUND == -MaxGrad

IsPrime(p) == p > 1 /\ \A q \in 2..(p - 1) : p % q # 0

\* curve order: a prime larger than the whole searched range
N == CHOOSE p \in (4 * MaxGrad + 3)..(8 * MaxGrad + 6) :
        IsPrime(p) /\ \A q \in (4 * MaxGrad + 3)..(p - 1) : ~IsPrime(q)

G == 1                \* the generator, 1*G

----------------------------------------------------------------------------
(* Python / tinyec values *)

Inf == 0              \* tinyec Inf object (x = None, y = None)
None == -1            \* Python None
ValueError == -2      \* raised ValueError
TypeError == -3       \* raised TypeError

IsErr(p) == p <= ValueError
IsPoint(p) == p >= 1

\* tinyec Point.__add__ / Inf.__add__ (operands are Point or Inf objects)
TinyecAdd(p1, p2) ==
    IF p1 = Inf /\ p2 = Inf THEN TypeError      \* Inf() without a curve
    ELSE IF p1 = Inf THEN p2
    ELSE IF p2 = Inf THEN p1
    ELSE IF (p1 + p2) % N = 0 THEN Inf
    ELSE (p1 + p2) % N

\* int * Point (Point.__rmul__); Inf defines no multiplication
TinyecMul(k, pt) ==
    IF pt = Inf THEN TypeError
    ELSE IF (k * pt) % N = 0 THEN Inf
    ELSE (k * pt) % N

----------------------------------------------------------------------------
(* crypto/ec_utils.py *)

point_add(p1, p2) ==
    IF IsErr(p1) THEN p1
    ELSE IF IsErr(p2) THEN p2
    ELSE IF p1 = None THEN p2
    ELSE IF p2 = None THEN p1
    ELSE TinyecAdd(p1, p2)

point_mul(pt, scalar) ==
    IF IsErr(pt) THEN pt
    ELSE IF pt = None THEN ValueError
    ELSE IF scalar % N = 0 THEN ValueError
    ELSE TinyecMul(scalar % N, pt)

point_neg(pt) ==
    IF IsErr(pt) THEN pt
    ELSE IF pt = None THEN ValueError
    ELSE IF pt = Inf THEN TypeError            \* (-None) % P
    ELSE (N - pt) % N

point_sub(p1, p2) == point_add(p1, point_neg(p2))

\* "x,y" in base 10; the string of point k is k, "None,None" is 0
serialize_point(pt) ==
    IF IsErr(pt) THEN pt
    ELSE IF pt = None THEN ValueError
    ELSE pt

----------------------------------------------------------------------------
(* crypto/bsgs.py *)

RECURSIVE Isqrt(_, _)
Isqrt(n, r) == IF (r + 1) * (r + 1) > n THEN r ELSE Isqrt(n, r + 1)

RANGE == BSGS_MAX_BOUND - BSGS_MIN_BOUND
m == Isqrt(RANGE, 0) + 1

IdentityKey == -1     \* the dictionary key "identity"

BsgsKey(pt) == IF pt = None THEN IdentityKey ELSE serialize_point(pt)

\* cur after j iterations of the baby-step loop
RECURSIVE BabyCur(_)
BabyCur(j) == IF j = 0 THEN None
              ELSE IF j = 1 THEN G
              ELSE point_add(BabyCur(j - 1), G)

\* the baby_steps dictionary: key -> j (a later j overwrites an earlier one)
BabyKeys == { BsgsKey(BabyCur(j)) : j \in 0..(m - 1) }
baby_steps == [ key \in BabyKeys |->
                  CHOOSE j \in 0..(m - 1) :
                     /\ BsgsKey(BabyCur(j)) = key
                     /\ \A j2 \in (j + 1)..(m - 1) : BsgsKey(BabyCur(j2)) # key ]

Ok(x) == [status |-> "ok", x |-> x]
Raised(kind) == [status |-> kind, x |-> 0]
Pending == [status |-> "pending", x |-> 0]

ErrName(code) == IF code = TypeError THEN "TypeError" ELSE "ValueError"

InBoundsNoUpper(x) == BSGS_MIN_BOUND <= x

InBounds(x) == BSGS_MIN_BOUND <= x /\ x <= BSGS_MAX_BOUND

RECURSIVE GiantSteps(_, _, _)
GiantSteps(gamma, step_neg, i) ==
    IF i > m THEN Raised("ValueError")
    ELSE IF IsErr(gamma) THEN Raised(ErrName(gamma))
    ELSE LET key == BsgsKey(gamma)
             x == i * m + baby_steps[key] + BSGS_MIN_BOUND
         IN IF key \in DOMAIN baby_steps /\ InBounds(x)
            THEN Ok(x)
            ELSE GiantSteps(point_add(gamma, step_neg), step_neg, i + 1)

recover_discrete_log(pt) ==
    IF pt = None THEN Ok(0)
    ELSE LET offset == point_mul(G, -BSGS_MIN_BOUND)
             target == point_add(pt, offset)
             step == point_mul(G, m)
             step_neg == point_neg(step)
         IN IF IsErr(target) THEN Raised(ErrName(target))
            ELSE IF IsErr(step_neg) THEN Raised(ErrName(step_neg))
            ELSE GiantSteps(target, step_neg, 0)

----------------------------------------------------------------------------
(* crypto/ndd_fe.py *)

QUANTIZATION_SCALE == 1000000
MAX_MINERS == 1000
MAX_MODEL_DIMENSION == 10000000

\* the string "x_hex,y_hex" of the point k*G; any other string is malformed
HexStr(k) == [enc |-> "hex", pt |-> k]

parse_hex_point(serialized) ==
    IF serialized.enc = "hex" THEN serialized.pt ELSE ValueError

validate_ciphertext_format(ciphertexts) ==
    /\ Len(ciphertexts) > 0
    /\ \A i \in 1..Len(ciphertexts) : \A j \in 1..Len(ciphertexts[i]) :
          ~IsErr(parse_hex_point(ciphertexts[i][j]))

validate_keys(pk_tp, sk_fe, sk_agg) ==
    /\ pk_tp # None
    /\ ~(sk_fe <= 0 \/ sk_fe >= N)
    /\ ~(sk_agg <= 0 \/ sk_agg >= N)

\* pow(a, -1, N); -2 stands for the ValueError of a non-invertible base
ModInv(a) ==
    IF \E x \in 1..(N - 1) : (a * x) % N = 1
    THEN CHOOSE x \in 1..(N - 1) : (a * x) % N = 1
    ELSE ValueError

\* x * pt where x may be the failed inverse
MulByInv(pt, inv) == IF IsErr(inv) THEN inv ELSE point_mul(pt, inv)

\* aggregated[j] after the first i miners of the accumulation loop
RECURSIVE AggregateCoord(_, _, _, _)
AggregateCoord(ciphertexts, ws, j, i) ==
    IF i = 0 THEN None
    ELSE LET prev == AggregateCoord(ciphertexts, ws, j, i - 1)
             term == point_mul(parse_hex_point(ciphertexts[i][j]), ws[i])
         IN IF IsErr(prev) THEN prev
            ELSE IF prev = None THEN term
            ELSE point_add(prev, term)

OkPoints(pts) == [status |-> "ok", points |-> pts]
FailPoints(kind) == [status |-> kind, points |-> <<>>]

\* the exception raised while filling a list, if any element raised
SeqErr(seq) ==
    IF \E j \in 1..Len(seq) : seq[j] = ValueError THEN "ValueError"
    ELSE IF \E j \in 1..Len(seq) : IsErr(seq[j]) THEN "TypeError"
    ELSE ""

ndd_fe_decrypt(ciphertexts, ws, pk_tp, sk_fe, sk_agg) ==
    IF ~validate_ciphertext_format(ciphertexts) THEN FailPoints("ValueError")
    ELSE IF ~validate_keys(pk_tp, sk_fe, sk_agg) THEN FailPoints("ValueError")
    ELSE IF Len(ciphertexts) # Len(ws) THEN FailPoints("ValueError")
    ELSE
      LET num_coords == Len(ciphertexts[1])
      IN IF \E i \in 1..Len(ciphertexts) : Len(ciphertexts[i]) # num_coords
         THEN FailPoints("ValueError")
         ELSE
           LET aggregated == [j \in 1..num_coords |->
                                AggregateCoord(ciphertexts, ws, j, Len(ciphertexts))]
               fe_mask == point_mul(pk_tp, sk_fe)
               unmasked == [j \in 1..num_coords |-> point_sub(aggregated[j], fe_mask)]
               inv_sk_agg == ModInv(sk_agg)
               result == [j \in 1..num_coords |-> MulByInv(unmasked[j], inv_sk_agg)]
           IN IF SeqErr(aggregated) # "" THEN FailPoints(SeqErr(aggregated))
              ELSE IF SeqErr(unmasked) # "" THEN FailPoints(SeqErr(unmasked))
              ELSE IF SeqErr(result) # "" THEN FailPoints(SeqErr(result))
              ELSE OkPoints(result)

----------------------------------------------------------------------------
(* crypto/bsgs.py: vector helpers; aggregation/aggregator.py *)

\* a Python float q / QUANTIZATION_SCALE, and a tinyec Point or Inf object
Float(q) == [type |-> "float", v |-> q]
PointObj(p) == [type |-> IF p = Inf THEN "Inf" ELSE "Point", v |-> p]

OkVec(v) == [status |-> "ok", vec |-> v]
FailVec(kind) == [status |-> kind, vec |-> <<>>]

recover_vector(points) ==
    LET vals == [idx \in 1..Len(points) |-> recover_discrete_log(points[idx])]
    IN IF \E idx \in 1..Len(points) : vals[idx].status # "ok"
       THEN FailVec("ValueError")
       ELSE OkVec([idx \in 1..Len(points) |-> vals[idx].x])

dequantize_vector(q_values) ==
    [idx \in 1..Len(q_values) |-> Float(q_values[idx])]

secure_aggregate(subs, sk_fe, sk_agg, pk_tp, ws) ==
    IF Len(subs) = 0 THEN FailVec("ValueError")
    ELSE IF Len(subs) > MAX_MINERS THEN FailVec("ValueError")
    ELSE
      LET ciphertexts == [idx \in 1..Len(subs) |-> subs[idx].ciphertext]
          aggregated_points == ndd_fe_decrypt(ciphertexts, ws, pk_tp, sk_fe, sk_agg)
      IN IF aggregated_points.status # "ok" THEN FailVec(aggregated_points.status)
         ELSE
           LET quantized_update == recover_vector(aggregated_points.points)
           IN IF quantized_update.status # "ok" THEN FailVec(quantized_update.status)
              ELSE IF Len(quantized_update.vec) > MAX_MODEL_DIMENSION
                   THEN FailVec("ValueError")
                   ELSE OkVec(dequantize_vector(quantized_update.vec))

----------------------------------------------------------------------------
(* aggregation/verifier.py *)

Min(a, b) == IF a < b THEN a ELSE b

\* recomputed[j] - fe_mask, the operator of the tinyec objects themselves
TinyecSub(p1, p2) ==
    IF IsErr(p1) THEN p1
    ELSE IF IsErr(p2) THEN p2
    ELSE IF p1 = None THEN TypeError
    ELSE IF p1 = Inf THEN p2                   \* Inf.__sub__ returns other
    ELSE TinyecAdd(p1, (N - p2) % N)

\* Python's p1 != p2 on floats, Point and Inf objects
PyNe(p1, p2) == p1 # p2

\* "True", "False", or the name of the exception that escapes
verify_recovered_aggregate(recovered_points, subs, ws, sk_agg, sk_fe, pk_tp) ==
    LET num_coords == Len(recovered_points)
        pairs == Min(Len(subs), Len(ws))          \* zip(submissions, weights)
        ciphertexts == [i \in 1..pairs |-> subs[i].ciphertext]
        bad == { i \in 1..pairs : Len(subs[i].ciphertext) # num_coords }
        firstBad == IF bad = {} THEN pairs + 1
                    ELSE CHOOSE i \in bad : \A i2 \in bad : i <= i2
        before == [j \in 1..num_coords |->
                     AggregateCoord(ciphertexts, ws, j, firstBad - 1)]
    IN IF SeqErr(before) # "" THEN SeqErr(before)
       ELSE IF bad # {} THEN "False"
       ELSE
         LET recomputed == [j \in 1..num_coords |->
                              AggregateCoord(ciphertexts, ws, j, pairs)]
             fe_mask == point_mul(pk_tp, sk_fe)
             unmasked == [j \in 1..num_coords |-> TinyecSub(recomputed[j], fe_mask)]
             inv_skA == ModInv(sk_agg)
             final == [j \in 1..num_coords |-> MulByInv(unmasked[j], inv_skA)]
         IN IF SeqErr(recomputed) # "" THEN SeqErr(recomputed)
            ELSE IF IsErr(fe_mask) THEN ErrName(fe_mask)
            ELSE IF SeqErr(unmasked) # "" THEN SeqErr(unmasked)
            ELSE IF IsErr(inv_skA) THEN ErrName(inv_skA)
            ELSE IF SeqErr(final) # "" THEN SeqErr(final)
            ELSE IF \E j \in 1..num_coords :
                       PyNe(recovered_points[j], PointObj(final[j]))
                 THEN "False"
                 ELSE "True"

----------------------------------------------------------------------------
(* consensus/majority.py, config/constants.py *)

VERDICT_VALID == "VALID"
VERDICT_INVALID == "INVALID"

\* a fault rate f is the decimal tolerable_fault_rate / RateDen
RateDen == 10000000
Epsilon999999 == 9999990       \* 0.999999 in units of 1 / RateDen
DEFAULT_TOLERABLE_FAULT_RATE == 3300000

Count(fbs, verdict) == Cardinality({ i \in 1..Len(fbs) : fbs[i].verdict = verdict })

\* int(N * (1.0 - f) + 0.999999); -2 stands for the raised ValueError
required_majority(n, f) ==
    IF ~(0 <= f /\ f < RateDen) THEN ValueError
    ELSE (n * (RateDen - f) + Epsilon999999) \div RateDen

has_majority(fbs, n, f) ==
    IF n <= 0 THEN "ValueError"
    ELSE LET valid_votes == Count(fbs, VERDICT_VALID)
             required == required_majority(n, f)
         IN IF IsErr(required) THEN "ValueError"
            ELSE IF valid_votes >= required THEN "True"
            ELSE "False"

----------------------------------------------------------------------------
(* Python strings: a str is the sequence of its characters *)

NoneStr == <<"None">>          \* Python None where a str is expected
IsStr(s) == s # NoneStr

CharOrd(c) == CASE c = "," -> 44
                [] c = "." -> 46
                [] c = "0" -> 48 [] c = "1" -> 49 [] c = "2" -> 50
                [] c = "3" -> 51 [] c = "4" -> 52 [] c = "5" -> 53
                [] c = "6" -> 54 [] c = "7" -> 55 [] c = "8" -> 56
                [] c = "9" -> 57
                [] c = "a" -> 97 [] c = "b" -> 98 [] c = "c" -> 99
                [] c = "t" -> 116 [] c = "u" -> 117
                [] c = "|" -> 124
                [] OTHER -> 0

\* s < t in Python's ordering of str
RECURSIVE StrLess(_, _)
StrLess(s, t) ==
    IF t = <<>> THEN FALSE
    ELSE IF s = <<>> THEN TRUE
    ELSE IF CharOrd(Head(s)) # CharOrd(Head(t)) THEN CharOrd(Head(s)) < CharOrd(Head(t))
    ELSE StrLess(Tail(s), Tail(t))

\* sep.join(parts)
RECURSIVE Join(_, _)
Join(parts, sep) ==
    IF parts = <<>> THEN <<>>
    ELSE IF Len(parts) = 1 THEN parts[1]
    ELSE parts[1] \o sep \o Join(Tail(parts), sep)

Contains(s, c) == \E i \in 1..Len(s) : s[i] = c

\* len(s.split(",")) - 1
CommaCount(s) == Cardinality({ i \in 1..Len(s) : s[i] = "," })

----------------------------------------------------------------------------
(* utils/validation.py *)

\* the strings "x_hex,y_hex" that name a point of the curve
KeyA == <<"a", ",", "a">>
KeyB == <<"b", ",", "b">>
PublicKeys == {KeyA, KeyB}

\* a hex DER signature made with the key of signer over msg; anything else
\* (not hex, not DER) has kind "garbage", and None has kind "none"
Signature(signer, msg) == [kind |-> "sig", signer |-> signer, msg |-> msg]
GarbageSig == [kind |-> "garbage", signer |-> NoneStr, msg |-> <<>>]
NoneSig == [kind |-> "none", signer |-> NoneStr, msg |-> <<>>]

verify_signature_any_message(public_key, message, signature) ==
    /\ public_key \in PublicKeys
    /\ signature.kind = "sig"
    /\ signature.signer = public_key

verify_signature(public_key, message, signature) ==
    /\ public_key \in PublicKeys               \* _parse_public_key
    /\ signature.kind = "sig"                  \* _parse_signature, DER decoding
    /\ signature.signer = public_key           \* vk.verify
    /\ signature.msg = message

----------------------------------------------------------------------------
(* aggregation/collector.py *)

\* the hard-coded synthetic encrypted zero "66c7...,e553..."
EncryptedZero == <<"0", ",", "0">>

Rejected == [ok |-> FALSE,
             sub |-> [task_id |-> NoneStr, miner_pk |-> NoneStr,
                      score_commit |-> NoneStr, signature |-> NoneSig,
                      ciphertext |-> <<>>]]
Normalized(sub) == [ok |-> TRUE, sub |-> sub]

\* ciphertext_dense after the first k assignments dense[idx] = encrypted_val;
\* <<NoneStr>> stands for the IndexError of an index outside the list
RECURSIVE Scatter(_, _, _, _)
Scatter(dense, indices, vals, k) ==
    IF k = 0 THEN dense
    ELSE LET prev == Scatter(dense, indices, vals, k - 1)
             idx == indices[k]
             pos == IF idx >= 0 THEN idx + 1 ELSE Len(dense) + idx + 1
         IN IF prev = <<NoneStr>> /\ Len(dense) # 1 THEN prev
            ELSE IF pos < 1 \/ pos > Len(dense) THEN <<NoneStr>>
            ELSE [prev EXCEPT ![pos] = vals[k]]

normalize_submission(raw) ==
    LET base == [task_id |-> raw.taskID, miner_pk |-> raw.miner_pk,
                 score_commit |-> raw.scoreCommit, signature |-> raw.signature]
    IN IF raw.format = "sparse"
       THEN IF raw.totalSize = 0 \/ raw.ciphertext.kind # "list"
            THEN Rejected
            ELSE IF Len(raw.nonzeroIndices) # Len(raw.ciphertext.items)
            THEN Rejected
            ELSE LET zeros == [k \in 1..raw.totalSize |-> EncryptedZero]
                     dense == Scatter(zeros, raw.nonzeroIndices,
                                      raw.ciphertext.items,
                                      Len(raw.nonzeroIndices))
                     failed == \E k \in 1..Len(raw.nonzeroIndices) :
                                  LET idx == raw.nonzeroIndices[k]
                                  IN idx >= raw.totalSize \/ idx < -raw.totalSize
                 IN IF failed THEN Rejected
                    ELSE Normalized([ciphertext |-> dense] @@ base)
       ELSE IF raw.ciphertext.kind \in {"str", "list"}
            THEN Normalized([ciphertext |-> raw.ciphertext.items] @@ base)
            ELSE Rejected

\* _validate_submission_structure does not raise
validate_submission_structure(sub, task_id) ==
    /\ sub.task_id = task_id
    /\ sub.ciphertext # <<>>
    /\ IsStr(sub.score_commit)
    /\ IsStr(sub.miner_pk)
    /\ sub.signature.kind # "none"
    /\ \A k \in 1..Len(sub.ciphertext) :
          IsStr(sub.ciphertext[k]) /\ Contains(sub.ciphertext[k], ",")

canonical_message(sub) ==
    Join(<<sub.task_id, Join(sub.ciphertext, <<",">>), sub.score_commit, sub.miner_pk>>,
         <<"|">>)

\* _verify_submission_signature does not raise
verify_submission_signature(sub) ==
    verify_signature(sub.miner_pk, canonical_message(sub), sub.signature)

\* the list valid after the first i iterations of the validation loop
RECURSIVE ValidateLoop(_, _, _)
ValidateLoop(subs, task_id, i) ==
    IF i = 0 THEN <<>>
    ELSE LET prev == ValidateLoop(subs, task_id, i - 1)
             normalized == normalize_submission(subs[i])
         IN IF /\ normalized.ok
               /\ validate_submission_structure(normalized.sub, task_id)
               /\ verify_submission_signature(normalized.sub)
            THEN Append(prev, normalized.sub)
            ELSE prev

OkSubs(subs) == [status |-> "ok", subs |-> subs]
FailSubs(kind) == [status |-> kind, subs |-> <<>>]

collect_and_validate_uncapped(subs, task_id, min_p, max_p) ==
    LET valid == ValidateLoop(subs, task_id, Len(subs))
    IN IF Len(valid) < min_p THEN FailSubs("RuntimeError") ELSE OkSubs(valid)

\* max_participants = 0 stands for None
collect_and_validate_submissions(subs, task_id, min_p, max_p) ==
    LET valid == ValidateLoop(subs, task_id, Len(subs))
    IN IF Len(valid) < min_p THEN FailSubs("RuntimeError")
       ELSE IF max_p # 0 /\ Len(valid) > max_p
            THEN OkSubs(SubSeq(valid, 1, max_p))
            ELSE OkSubs(valid)

----------------------------------------------------------------------------
(* consensus/candidate.py, utils/serialization.py *)

Digit(d) == CASE d = 0 -> "0" [] d = 1 -> "1" [] d = 2 -> "2" [] d = 3 -> "3"
              [] d = 4 -> "4" [] d = 5 -> "5" [] d = 6 -> "6" [] d = 7 -> "7"
              [] d = 8 -> "8" [] d = 9 -> "9"

\* str(n) for n >= 0
RECURSIVE Str(_)
Str(n) == IF n < 10 THEN <<Digit(n)>> ELSE Str(n \div 10) \o <<Digit(n % 10)>>

\* the last w decimal digits of n, zero padded
RECURSIVE Padded(_, _)
Padded(n, w) == IF w = 0 THEN <<>> ELSE Padded(n \div 10, w - 1) \o <<Digit(n % 10)>>

\* f"{accuracy:.8f}" for an accuracy of a * 10^-9
Format8f(a) ==
    LET rounded == (a + 5) \div 10
    IN Str(rounded \div 100000000) \o <<".">> \o Padded(rounded % 100000000, 8)

\* list.sort(key=lambda x: x[0]) is stable: x goes behind every entry whose
\* key is not greater
RECURSIVE InsertByKey(_, _)
InsertByKey(sorted, x) ==
    IF sorted = <<>> THEN <<x>>
    ELSE IF StrLess(x[1], Head(sorted)[1]) THEN <<x>> \o sorted
    ELSE <<Head(sorted)>> \o InsertByKey(Tail(sorted), x)

RECURSIVE SortByKey(_, _)
SortByKey(combined, k) ==
    IF k = 0 THEN <<>> ELSE InsertByKey(SortByKey(combined, k - 1), combined[k])

canonical_candidate_block(block) ==
    Join(<<block.task_id, Str(block.round), block.model_hash, block.model_link,
           Format8f(block.accuracy), Join(block.participants, <<",">>),
           Join(block.score_commits, <<",">>), block.aggregator_pk,
           Str(block.timestamp)>>, <<"|">>)

\* SHA-256 taken as collision free: the digest names the bytes hashed
sha256(bytes) == [sha256 |-> bytes]

build_candidate_block_unsorted(task_id, model_hash, model_link, acc, subs, aggregator_pk, now) ==
    LET combined == [k \in 1..Len(subs) |-> <<subs[k].miner_pk, subs[k].score_commit>>]
        block == [task_id |-> task_id, round |-> 0, model_hash |-> model_hash,
                  model_link |-> model_link, accuracy |-> acc,
                  participants |-> [k \in 1..Len(combined) |-> combined[k][1]],
                  score_commits |-> [k \in 1..Len(combined) |-> combined[k][2]],
                  aggregator_pk |-> aggregator_pk, timestamp |-> now]
    IN [hash |-> sha256(canonical_candidate_block(block))] @@ block

build_candidate_block(task_id, model_hash, model_link, acc, subs, aggregator_pk, now) ==
    LET combined == SortByKey([k \in 1..Len(subs) |->
                                 <<subs[k].miner_pk, subs[k].score_commit>>],
                              Len(subs))
        block == [task_id |-> task_id, round |-> 0, model_hash |-> model_hash,
                  model_link |-> model_link, accuracy |-> acc,
                  participants |-> [k \in 1..Len(combined) |-> combined[k][1]],
                  score_commits |-> [k \in 1..Len(combined) |-> combined[k][2]],
                  aggregator_pk |-> aggregator_pk, timestamp |-> now]
    IN [hash |-> sha256(canonical_candidate_block(block))] @@ block

----------------------------------------------------------------------------
(* consensus/feedback.py *)

CandidateHash == sha256(<<"c">>)
NoHash == sha256(NoneStr)       \* "candidate_hash": None

canonical_feedback_message(fb) ==
    <<"HealChain Verification\nTask: ">> \o fb.task_id
       \o <<"\nVerdict: ", fb.verdict, "\nMiner: ">> \o fb.miner_pk

\* _validate_feedback_structure does not raise
validate_feedback_structure(fb, candidate_hash) ==
    /\ fb.candidate_hash = candidate_hash
    /\ fb.verdict \in {VERDICT_VALID, VERDICT_INVALID}
    /\ IsStr(fb.miner_pk)
    /\ fb.signature.kind # "none"

\* _verify_feedback_signature does not raise
verify_feedback_signature(fb) ==
    verify_signature(fb.miner_pk, canonical_feedback_message(fb), fb.signature)

LoopContinuesLate(passed, limit) == passed <= limit

\* while time.time() - start_time < timeout
LoopContinues(passed, limit) == passed < limit

AlreadySeenNever(miner_pk, seen) == FALSE

\* if miner_pk in seen_miners
AlreadySeen(miner_pk, seen) == miner_pk \in seen

\* feedbacks and seen_miners after the first i entries of the batch
RECURSIVE FeedbackLoop(_, _, _, _, _)
FeedbackLoop(fetched, i, fbs, seen, candidate_hash) ==
    IF i = 0 THEN [feedbacks |-> fbs, seen_miners |-> seen]
    ELSE LET prev == FeedbackLoop(fetched, i - 1, fbs, seen, candidate_hash)
             fb == [fetched[i] EXCEPT !.candidate_hash = candidate_hash]
         IN IF ~validate_feedback_structure(fb, candidate_hash) THEN prev
            ELSE IF AlreadySeen(fb.miner_pk, prev.seen_miners) THEN prev
            ELSE IF ~verify_feedback_signature(fb) THEN prev
            ELSE [feedbacks |-> Append(prev.feedbacks, fb),
                  seen_miners |-> prev.seen_miners \cup {fb.miner_pk}]

----------------------------------------------------------------------------
(* state/progress.py, main.py: the steps of HealChainAggregator.run *)

MIN_PARTICIPANTS == 2
AGGREGATION_TIMEOUT == MaxWait

\* ProgressTracker.mark: a milestone already marked is not recorded again
mark(order, milestone) ==
    IF \E i \in 1..Len(order) : order[i] = milestone THEN order
    ELSE Append(order, milestone)

\* BackendSender calls, as the run makes them
\* a call on BackendSender; ok is what the call returned (HTTP 200 or not)
BroadcastCandidate(block, ok) ==
    [call |-> "broadcast_candidate", hash |-> block.hash, ok |-> ok]
PublishPayload(block, ok) ==
    [call |-> "publish_payload", hash |-> block.hash, ok |-> ok]

AfterVerificationAlways(result) == "publish"

\* if not self._run_miner_verification(candidate): ... return
AfterVerification(result) == IF result = "True" THEN "publish" ELSE "returned"

----------------------------------------------------------------------------
(* config/constants.py, state/task_state.py *)

TASK_STATE_INITIALIZED == "INITIALIZED"
TASK_STATE_METADATA_LOADED == "METADATA_LOADED"
TASK_STATE_COLLECTING == "COLLECTING_SUBMISSIONS"
TASK_STATE_AGGREGATING == "AGGREGATING"
TASK_STATE_EVALUATED == "MODEL_EVALUATED"
TASK_STATE_CANDIDATE_BUILT == "CANDIDATE_BUILT"
TASK_STATE_VERIFYING == "VERIFYING"
TASK_STATE_PUBLISHED == "PUBLISHED"
TASK_STATE_ABORTED == "ABORTED"

\* _validate_metadata does not raise
validate_metadata(required_accuracy_given, ws, parts) ==
    /\ required_accuracy_given
    /\ ws # <<>>
    /\ parts # <<>>
    /\ Len(ws) = Len(parts)

\* the status update_model assigns
update_model_status == "MODEL_UPDATED"

----------------------------------------------------------------------------
(* States of the components a specification does not exercise *)

BsgsIdle ==
    /\ value = 0
    /\ other = 0
    /\ point = None
    /\ recovered = Pending
    /\ bsgs_pc = "idle"

NoPoints == [status |-> "pending", points |-> <<>>]
NoVec == [status |-> "pending", vec |-> <<>>]

AggIdle ==
    /\ deltas = <<>>
    /\ mask = 0
    /\ submissions = <<>>
    /\ weights = <<>>
    /\ skA = 1
    /\ skFE = 1
    /\ pkTP = G
    /\ decrypted = NoPoints
    /\ aggregate = NoVec
    /\ milestones = {}
    /\ agg_error = ""
    /\ agg_pc = "idle"

MajIdle ==
    /\ feedbacks = <<>>
    /\ total_participants = 1
    /\ tolerable_fault_rate = 0
    /\ accepted = "idle"

ColIdle ==
    /\ batch = <<>>
    /\ min_participants = 0
    /\ max_participants = 0
    /\ collected = [status |-> "idle", subs |-> <<>>]

CandIdle ==
    /\ orderings = <<>>
    /\ accuracy = 0
    /\ clock = 0
    /\ blocks = <<>>

FbIdle ==
    /\ seen_miners = {}
    /\ last_batch = <<>>
    /\ elapsed = 0
    /\ timeout = 0
    /\ fb_pc = "idle"
    /\ fb_hash = NoHash

RunIdle ==
    /\ run_pc = "idle"
    /\ status = "INITIALIZED"
    /\ progress = <<>>
    /\ sent = <<>>
    /\ candidate = <<>>
    /\ wait_elapsed = 0
    /\ run_error = ""

ApiIdle ==
    /\ requests = <<>>
    /\ running_aggregators = <<>>
    /\ environ = <<>>

TaskIdle ==
    /\ participants = <<>>
    /\ round = 0

VerIdle ==
    /\ ver_points = <<>>
    /\ ver_result = "idle"

SparseIdle ==
    /\ sparse_raw = <<>>
    /\ sparse_out = <<>>

KeyIdle ==
    /\ key_env = <<>>
    /\ pkA = None
    /\ key_status = "idle"

EvalIdle ==
    /\ model_weights = <<>>
    /\ eval_input = <<>>
    /\ eval_status = "idle"

MsgIdle ==
    /\ msg_subs = <<>>
    /\ msg_bytes = <<>>

UnitIdle == SparseIdle /\ KeyIdle /\ EvalIdle /\ MsgIdle

OrchIdle == RunIdle /\ ApiIdle /\ TaskIdle /\ VerIdle /\ UnitIdle

----------------------------------------------------------------------------
(* Aggregation procedures: tests/test_crypto/test_ndd_fe.py,               *)
(* tests/test_aggregation/test_aggregator.py, main.py _secure_aggregate    *)

\* miner-side encryption U_i[j] = g^r * pkA^{v_i[j]}, as a discrete log
EncLog(v, r, sk_agg) == (v * sk_agg + r) % N

Encrypt(vecs, r, sk_agg) ==
    [i \in 1..Len(vecs) |->
       [miner_pk |-> i,
        ciphertext |-> [j \in 1..Len(vecs[i]) |-> HexStr(EncLog(vecs[i][j], r, sk_agg))]]]

\* every ciphertext entry is a curve point, never the identity
Encryptable(vecs, r, sk_agg) ==
    \A i \in 1..Len(vecs) : \A j \in 1..Len(vecs[i]) : EncLog(vecs[i][j], r, sk_agg) # 0

DeltaVals == (-MaxDelta)..MaxDelta

\* the vectors of the end-to-end example of the aggregation test
ExampleDeltas == << <<5, -3, 7>>, <<-2, 4, 1>>, <<6, -1, -5>> >>

SmallDeltas ==
    UNION { [1..h -> [1..d -> DeltaVals]] : h \in 1..MaxMiners, d \in 1..MaxDim }

InitAgg ==
    /\ BsgsIdle
    /\ MajIdle
    /\ ColIdle
    /\ CandIdle
    /\ FbIdle
    /\ OrchIdle
    /\ deltas \in SmallDeltas \cup {ExampleDeltas}
    /\ mask \in 0..MaxMask
    /\ skA = 3
    /\ skFE \in 0..1
    /\ pkTP = 3 * G
    /\ weights \in [1..Len(deltas) -> 1..MaxWeight] \cup {<<>>}
    /\ Encryptable(deltas, mask, skA)
    /\ submissions = Encrypt(deltas, mask, skA)
    /\ decrypted = NoPoints
    /\ aggregate = NoVec
    /\ milestones = {}
    /\ agg_error = ""
    /\ agg_pc = "start"

Ciphertexts == [i \in 1..Len(submissions) |-> submissions[i].ciphertext]

\* recovered_points = ndd_fe_decrypt(ciphertexts=..., weights=..., ...)
TestNddFeDecrypt ==
    /\ agg_pc = "start"
    /\ decrypted' = ndd_fe_decrypt(Ciphertexts, weights, pkTP, skFE, skA)
    /\ agg_pc' = "decrypted"
    /\ UNCHANGED <<aggInputs, aggregate, milestones, agg_error, bsgsVars, majVars, colVars, candVars, fbVars, orchVars>>

\* aggregate_update = secure_aggregate(submissions=..., ...)
TestSecureAggregate ==
    /\ agg_pc = "start"
    /\ aggregate' = secure_aggregate(submissions, skFE, skA, pkTP, weights)
    /\ agg_pc' = "aggregated"
    /\ UNCHANGED <<aggInputs, decrypted, milestones, agg_error, bsgsVars, majVars, colVars, candVars, fbVars, orchVars>>

\* HealChainAggregator._secure_aggregate
OrchSecureAggregate ==
    /\ agg_pc = "start"
    /\ LET agg == secure_aggregate(submissions, skFE, skA, pkTP, weights)
           verdict == verify_recovered_aggregate(agg.vec, submissions, weights,
                                                 skA, skFE, pkTP)
       IN /\ aggregate' = agg
          /\ IF agg.status # "ok"
             THEN agg_error' = agg.status /\ milestones' = milestones
             ELSE IF verdict = "True"
             THEN agg_error' = "" /\ milestones' = milestones \cup {"aggregation_complete"}
             ELSE IF verdict = "False"
             THEN /\ agg_error' = "Aggregate verification failed"
                  /\ milestones' = milestones
             ELSE agg_error' = verdict /\ milestones' = milestones
    /\ agg_pc' = "orchestrated"
    /\ UNCHANGED <<aggInputs, decrypted, bsgsVars, majVars, colVars, candVars, fbVars, orchVars>>

NextAgg == TestNddFeDecrypt \/ TestSecureAggregate \/ OrchSecureAggregate

SpecAgg == InitAgg /\ [][NextAgg]_vars

\* the weighted sum of coordinate j over the first i miners
RECURSIVE WeightedSum(_, _, _, _)
WeightedSum(vecs, ws, j, i) ==
    IF i = 0 THEN 0 ELSE WeightedSum(vecs, ws, j, i - 1) + ws[i] * vecs[i][j]

Dim == Len(deltas[1])
Sum(j) == WeightedSum(deltas, weights, j, Len(deltas))

\* the submitted points satisfy sum_i y_i*U_i[j] = S_j*pkA + skFE*pkTP
RECURSIVE CipherSum(_, _)
CipherSum(j, i) ==
    IF i = 0 THEN 0
    ELSE (CipherSum(j, i - 1) + weights[i] * submissions[i].ciphertext[j].pt) % N

Consistent ==
    /\ Len(weights) = Len(deltas)
    /\ \A j \in 1..Dim : CipherSum(j, Len(deltas)) = (Sum(j) * skA + skFE * pkTP) % N

ValidKeys == skA \in 1..(N - 1) /\ skFE \in 1..(N - 1) /\ IsPoint(pkTP)

\* the point s*G as a tinyec value
GPow(s) == IF s % N = 0 THEN Inf ELSE s % N

(* C3: with valid keys and ciphertext points whose weighted sum is         *)
(* S_j*pk_agg + sk_fe*pk_tp at every coordinate j, ndd_fe_decrypt returns  *)
(* the point S_j*G at every coordinate, S_j = sum_i y_i*v_i[j].            *)
C3_WeightedSumDecrypt ==
    (agg_pc = "decrypted" /\ ValidKeys /\ Consistent)
       => /\ decrypted.status = "ok"
          /\ Len(decrypted.points) = Dim
          /\ \A j \in 1..Dim : decrypted.points[j] = GPow(Sum(j))

(* C4: one miner, weight 1, FE scalar 0 and ciphertext [v[j]*pk_agg]:      *)
(* ndd_fe_decrypt succeeds and returns v[j]*G at every coordinate.         *)
C4_SingleMinerIdentity ==
    (agg_pc = "decrypted" /\ Len(deltas) = 1 /\ weights = <<1>>
        /\ skFE = 0 /\ mask = 0)
       => /\ decrypted.status = "ok"
          /\ Len(decrypted.points) = Dim
          /\ \A j \in 1..Dim : decrypted.points[j] = GPow(deltas[1][j])

(* C5: secure_aggregate returns Sum(j) / QUANTIZATION_SCALE at every       *)
(* coordinate whenever the ciphertexts encrypt the vectors under the       *)
(* weights and every weighted sum is in [BSGS_MIN_BOUND, BSGS_MAX_BOUND],  *)
(* coordinates with sum 0 included.                                        *)
C5_SecureAggregateSums ==
    (agg_pc = "aggregated" /\ ValidKeys /\ Consistent
        /\ \A j \in 1..Dim : InBounds(Sum(j)))
       => /\ aggregate.status = "ok"
          /\ aggregate.vec = [j \in 1..Dim |-> Float(Sum(j))]

(* C6: in _secure_aggregate, when secure aggregation of honestly encrypted *)
(* submissions succeeds, verification passes and the milestone             *)
(* aggregation_complete is recorded.                                       *)
C6_VerificationPasses ==
    (agg_pc = "orchestrated" /\ Consistent /\ aggregate.status = "ok")
       => /\ "aggregation_complete" \in milestones
          /\ agg_error # "Aggregate verification failed"

----------------------------------------------------------------------------
(* Majority decision: tests/integration/test_end_to_end.py, main.py        *)

Verdicts == {VERDICT_VALID, VERDICT_INVALID, "ABSTAIN"}

FaultRates == {0, DEFAULT_TOLERABLE_FAULT_RATE, 3333333, 5000000, 7500000,
               -1, RateDen}

FeedbackLists ==
    UNION { [1..n -> [miner_pk : {1}, verdict : Verdicts]] : n \in 0..MaxFeedback }

InitMaj ==
    /\ BsgsIdle
    /\ AggIdle
    /\ ColIdle
    /\ CandIdle
    /\ FbIdle
    /\ OrchIdle
    /\ feedbacks \in FeedbackLists
    /\ total_participants \in 0..MaxVoters
    /\ tolerable_fault_rate \in FaultRates
    /\ accepted = "pending"

\* accepted = has_majority(feedbacks=..., total_participants=..., tolerable_fault_rate=...)
HasMajority ==
    /\ accepted = "pending"
    /\ accepted' = has_majority(feedbacks, total_participants, tolerable_fault_rate)
    /\ UNCHANGED <<feedbacks, total_participants, tolerable_fault_rate,
                   bsgsVars, aggVars, colVars, candVars, fbVars, orchVars>>

NextMaj == HasMajority

SpecMaj == InitMaj /\ [][NextMaj]_vars

\* ceil(N * (1 - f)) over the rationals
CeilRequired(n, f) == (n * (RateDen - f) + RateDen - 1) \div RateDen

(* C7: for N >= 1 and f in [0,1), has_majority returns true exactly when   *)
(* the number of VALID entries is at least ceil(N*(1-f)).                  *)
C7_MajorityIsCeil ==
    (accepted \notin {"pending", "idle"} /\ total_participants >= 1
        /\ 0 <= tolerable_fault_rate /\ tolerable_fault_rate < RateDen)
       => (accepted = "True"
             <=> Count(feedbacks, VERDICT_VALID)
                   >= CeilRequired(total_participants, tolerable_fault_rate))

----------------------------------------------------------------------------
(* Submission collection: collect_and_validate_submissions on a raw batch  *)

TaskId == <<"t">>
OtherTaskId == <<"u">>

Ct1 == <<"1", ",", "1">>
Ct2 == <<"2", ",", "2">>
Ct3 == <<"1", ",", "1", ",", "1">>      \* three fields, not a point encoding
CommitOf(k) == IF k = KeyA THEN <<"c", "a">> ELSE <<"c", "b">>

RawDense(tag, task, k, kind, items, commit, sig) ==
    [tag |-> tag, taskID |-> task, miner_pk |-> k, scoreCommit |-> commit,
     signature |-> sig, format |-> "dense",
     ciphertext |-> [kind |-> kind, items |-> items],
     totalSize |-> 0, nonzeroIndices |-> <<>>]

RawSparse(tag, task, k, total, indices, items, commit, sig) ==
    [tag |-> tag, taskID |-> task, miner_pk |-> k, scoreCommit |-> commit,
     signature |-> sig, format |-> "sparse",
     ciphertext |-> [kind |-> "list", items |-> items],
     totalSize |-> total, nonzeroIndices |-> indices]

\* the message a miner signs for the dense ciphertext it means to submit
SignedMessage(task, items, commit, k) ==
    Join(<<task, Join(items, <<",">>), commit, k>>, <<"|">>)

HonestSig(task, items, commit, k) == Signature(k, SignedMessage(task, items, commit, k))

\* the raw submissions the backend may relay; tag is not read by the code
RawPool ==
    { RawDense("good", TaskId, k, "list", <<Ct1, Ct2>>, CommitOf(k),
               HonestSig(TaskId, <<Ct1, Ct2>>, CommitOf(k), k)) : k \in PublicKeys }
    \cup
    { RawDense("good", TaskId, KeyA, "str", <<Ct2>>, CommitOf(KeyB),
               HonestSig(TaskId, <<Ct2>>, CommitOf(KeyB), KeyA)),
      RawSparse("good", TaskId, KeyB, 2, <<1>>, <<Ct1>>, CommitOf(KeyB),
               HonestSig(TaskId, <<EncryptedZero, Ct1>>, CommitOf(KeyB), KeyB)),
      \* well signed and accepted by every check of the collector
      RawDense("good", TaskId, KeyB, "list", <<Ct3>>, CommitOf(KeyB),
               HonestSig(TaskId, <<Ct3>>, CommitOf(KeyB), KeyB)),
      \* signature over another score commitment
      RawDense("bad_signature", TaskId, KeyA, "list", <<Ct1, Ct2>>, CommitOf(KeyA),
               HonestSig(TaskId, <<Ct1, Ct2>>, CommitOf(KeyB), KeyA)),
      \* signature made with another miner's key
      RawDense("bad_signature", TaskId, KeyB, "list", <<Ct1>>, CommitOf(KeyB),
               HonestSig(TaskId, <<Ct1>>, CommitOf(KeyB), KeyA)),
      RawDense("bad_signature", TaskId, KeyB, "list", <<Ct2>>, CommitOf(KeyB),
               GarbageSig),
      RawDense("bad_structure", OtherTaskId, KeyA, "list", <<Ct1>>, CommitOf(KeyA),
               HonestSig(OtherTaskId, <<Ct1>>, CommitOf(KeyA), KeyA)),
      RawDense("bad_structure", TaskId, KeyB, "list", <<<<"1">>>>, CommitOf(KeyB),
               HonestSig(TaskId, <<<<"1">>>>, CommitOf(KeyB), KeyB)),
      RawSparse("bad_structure", TaskId, KeyA, 2, <<0, 1>>, <<Ct1>>, CommitOf(KeyA),
               HonestSig(TaskId, <<Ct1, EncryptedZero>>, CommitOf(KeyA), KeyA)) }

InitCol ==
    /\ BsgsIdle
    /\ AggIdle
    /\ MajIdle
    /\ CandIdle
    /\ FbIdle
    /\ OrchIdle
    /\ batch \in UNION { [1..n -> RawPool] : n \in 0..MaxBatch }
    /\ min_participants \in 0..MaxBatch
    /\ max_participants \in 0..2
    /\ collected = [status |-> "pending", subs |-> <<>>]

\* valid_subs = collect_and_validate_submissions(submissions=batch, ...)
CollectAndValidate ==
    /\ collected.status = "pending"
    /\ collected' = collect_and_validate_submissions(batch, TaskId,
                                                    min_participants, max_participants)
    /\ UNCHANGED <<batch, min_participants, max_participants,
                   bsgsVars, aggVars, majVars, candVars, fbVars, orchVars>>

NextCol == CollectAndValidate

SpecCol == InitCol /\ [][NextCol]_vars

InResult(sub) == \E k \in 1..Len(collected.subs) : collected.subs[k] = sub

GoodIdx == { i \in 1..Len(batch) : batch[i].tag = "good" }
BadSigIdx == { i \in 1..Len(batch) : batch[i].tag = "bad_signature" }

\* the normalised forms of the submissions tagged good, in batch order
GoodSubs ==
    LET good == SelectSeq(batch, LAMBDA raw : raw.tag = "good")
    IN [k \in 1..Len(good) |-> normalize_submission(good[k]).sub]

Collected == collected.status \notin {"pending", "idle"}

BadSignatureLeftOut ==
    \A k \in 1..Len(collected.subs) :
       \A i \in BadSigIdx : collected.subs[k].signature # batch[i].signature

(* C8: a submission whose signature does not verify is left out of the     *)
(* result and every other valid submission of the batch is still accepted: *)
(* one failing submission never makes the call fail for the others.        *)
C8_BadSignatureNeverFailsCall ==
    (Collected /\ BadSigIdx # {} /\ GoodIdx # {})
       => /\ collected.status = "ok"
          /\ \A k \in 1..Len(GoodSubs) : InResult(GoodSubs[k])
          /\ BadSignatureLeftOut

(* C8 as the code has it: a submission whose signature does not verify is  *)
(* left out of the result; the call raises RuntimeError when fewer than    *)
(* min_participants submissions pass, and otherwise returns the valid      *)
(* submissions in batch order, cut to the first max_participants of them.  *)
C8_BadSignatureLeftOut ==
    (Collected /\ BadSigIdx # {} /\ GoodIdx # {})
       => /\ BadSignatureLeftOut
          /\ IF Len(GoodSubs) < min_participants
             THEN collected = [status |-> "RuntimeError", subs |-> <<>>]
             ELSE /\ collected.status = "ok"
                  /\ collected.subs =
                        IF max_participants # 0 /\ Len(GoodSubs) > max_participants
                        THEN SubSeq(GoodSubs, 1, max_participants)
                        ELSE GoodSubs

C8_Witness ==
    /\ collected.status = "ok"
    /\ BadSigIdx # {}
    /\ Cardinality(GoodIdx) >= 2
    /\ Len(collected.subs) = Cardinality(GoodIdx)

(* C19: every submission in the result of collect_and_validate_submissions *)
(* has the five required fields with string values, the collector's task   *)
(* id, a non-empty ciphertext list, and only ciphertext entries with       *)
(* exactly two comma-separated fields.                                     *)
C19_ResultWellFormed ==
    \A k \in 1..Len(collected.subs) :
       LET sub == collected.subs[k]
       IN /\ sub.task_id = TaskId
          /\ IsStr(sub.miner_pk)
          /\ IsStr(sub.score_commit)
          /\ sub.signature.kind \in {"sig", "garbage"}
          /\ sub.ciphertext # <<>>
          /\ \A e \in 1..Len(sub.ciphertext) :
                IsStr(sub.ciphertext[e]) /\ CommaCount(sub.ciphertext[e]) = 1

\* the first n entries of a list
Prefix(seq, n) == SubSeq(seq, 1, n)

(* C20: collect_and_validate_submissions fails exactly when fewer than     *)
(* min_participants submissions of the input pass validation; otherwise it *)
(* returns the valid submissions in input order, and when max_participants *)
(* is given and exceeded, exactly the first max_participants of them.      *)
C20_FailsExactlyBelowMinimum ==
    Collected =>
       /\ collected.status = "RuntimeError" <=> Len(GoodSubs) < min_participants
       /\ collected.status \in {"ok", "RuntimeError"}
       /\ collected.status = "ok" =>
             /\ max_participants = 0 => collected.subs = GoodSubs
             /\ max_participants # 0 =>
                   collected.subs = Prefix(GoodSubs, Min(Len(GoodSubs), max_participants))

\* more submissions passed than max_participants admits, some were rejected
C20_Witness ==
    /\ collected.status = "ok"
    /\ max_participants # 0
    /\ Len(GoodSubs) > max_participants
    /\ Len(collected.subs) = max_participants
    /\ Len(batch) > Len(GoodSubs)

----------------------------------------------------------------------------
(* Candidate block: build_candidate_block on two orders of the submissions *)

ModelHash == <<"a", "b">>
ModelLink == <<"b", "a">>
AggregatorPk == <<"c", ",", "c">>

\* accepted submissions as the candidate builder reads them
CandPool == [miner_pk : PublicKeys, score_commit : {CommitOf(k) : k \in PublicKeys}]

Orders(n) == { f \in [1..n -> 1..n] : \A i, j \in 1..n : f[i] = f[j] => i = j }

InitCand ==
    /\ BsgsIdle
    /\ AggIdle
    /\ MajIdle
    /\ ColIdle
    /\ FbIdle
    /\ OrchIdle
    /\ \E n \in 0..MaxCand : \E subs \in [1..n -> CandPool] : \E f \in Orders(n) :
          orderings = <<subs, [k \in 1..n |-> subs[f[k]]]>>
    /\ accuracy \in {0, 875000000, 123456789}
    /\ clock = 0
    /\ blocks = << <<>>, <<>> >>

\* candidate_block = build_candidate_block(..., submissions=orderings[which])
BuildCandidateBlock(which) ==
    /\ blocks[which] = <<>>
    /\ blocks' = [blocks EXCEPT ![which] =
                    <<build_candidate_block(TaskId, ModelHash, ModelLink, accuracy,
                                            orderings[which], AggregatorPk, clock)>>]
    /\ UNCHANGED <<orderings, accuracy, clock,
                   bsgsVars, aggVars, majVars, colVars, fbVars, orchVars>>

\* time passes between the two builds
Tick ==
    /\ clock < MaxClock
    /\ clock' = clock + 1
    /\ UNCHANGED <<orderings, accuracy, blocks,
                   bsgsVars, aggVars, majVars, colVars, fbVars, orchVars>>

NextCand ==
    \/ BuildCandidateBlock(1)
    \/ BuildCandidateBlock(2)
    \/ Tick

SpecCand == InitCand /\ [][NextCand]_vars

(* C9: two candidate blocks built from the same submissions given in two   *)
(* different orders, every other argument and the timestamp being equal,   *)
(* have the same participants, the same score_commits and the same hash.   *)
C9_OrderIndependent ==
    (/\ blocks # <<>>
     /\ blocks[1] # <<>>
     /\ blocks[2] # <<>>
     /\ blocks[1][1].timestamp = blocks[2][1].timestamp)
       => /\ blocks[1][1].participants = blocks[2][1].participants
          /\ blocks[1][1].score_commits = blocks[2][1].score_commits
          /\ blocks[1][1].hash = blocks[2][1].hash

\* the block built from orderings[which] lists the submissions' own
\* (miner_pk, score_commit) pairs, each once
PairsOf(which) ==
    LET subs == orderings[which]
        block == blocks[which][1]
    IN /\ Len(block.participants) = Len(subs)
       /\ Len(block.score_commits) = Len(subs)
       /\ \E f \in Orders(Len(subs)) :
             \A i \in 1..Len(subs) :
                /\ block.participants[i] = subs[f[i]].miner_pk
                /\ block.score_commits[i] = subs[f[i]].score_commit

Ascending(keys) ==
    \A i \in 1..Len(keys) : \A j \in 1..Len(keys) :
       i < j => ~StrLess(keys[j], keys[i])

(* C25: in every block returned by build_candidate_block the participants  *)
(* are in ascending order of miner public key and the two lists stay       *)
(* aligned: for every position i, score_commits[i] is the commitment       *)
(* carried by the submission of participants[i].                           *)
C25_SortedAndAligned ==
    \A which \in 1..2 :
       blocks[which] # <<>> =>
          /\ Ascending(blocks[which][1].participants)
          /\ PairsOf(which)

\* a block was built from submissions given in descending key order, with
\* different commitments
C25_Witness ==
    /\ blocks[1] # <<>>
    /\ Len(orderings[1]) >= 2
    /\ StrLess(orderings[1][2].miner_pk, orderings[1][1].miner_pk)
    /\ orderings[1][1].score_commit # orderings[1][2].score_commit
    /\ blocks[1][1].participants[1] = orderings[1][2].miner_pk
    /\ blocks[1][1].score_commits[1] = orderings[1][2].score_commit

----------------------------------------------------------------------------
(* Feedback collection: the polling loop of collect_feedback               *)

Address == <<"0", "a">>        \* a miner address, not a public key string

\* another candidate block of the same task
OtherCandidateHash == sha256(<<"b">>)

\* an entry as fetch_feedback hands it over; issued_for is the candidate the
\* miner reviewed, which the backend does not relay and the code cannot read
FetchedFor(issued_for, task, miner, verdict, sig) ==
    [task_id |-> task, miner_pk |-> miner, verdict |-> verdict, signature |-> sig,
     candidate_hash |-> NoHash, reason |-> "MVP Verification",
     issued_for |-> issued_for]

Fetched(task, miner, verdict, sig) ==
    FetchedFor(CandidateHash, task, miner, verdict, sig)

FeedbackMessage(task, verdict, miner) ==
    <<"HealChain Verification\nTask: ">> \o task
       \o <<"\nVerdict: ", verdict, "\nMiner: ">> \o miner

FeedbackPool ==
    { Fetched(TaskId, k, v, Signature(k, FeedbackMessage(TaskId, v, k))) :
         k \in PublicKeys, v \in {VERDICT_VALID, VERDICT_INVALID} }
    \cup
    { Fetched(TaskId, KeyA, VERDICT_VALID,
              Signature(KeyB, FeedbackMessage(TaskId, VERDICT_VALID, KeyA))),
      Fetched(TaskId, KeyB, VERDICT_VALID,
              Signature(KeyB, FeedbackMessage(TaskId, VERDICT_INVALID, KeyB))),
      Fetched(TaskId, KeyA, "ABSTAIN",
              Signature(KeyA, FeedbackMessage(TaskId, "ABSTAIN", KeyA))),
      Fetched(TaskId, Address, VERDICT_VALID,
              Signature(KeyA, FeedbackMessage(TaskId, VERDICT_VALID, Address))),
      Fetched(TaskId, NoneStr, VERDICT_VALID, NoneSig),
      \* a verdict on another candidate of the task
      FetchedFor(OtherCandidateHash, TaskId, KeyB, VERDICT_VALID,
                 Signature(KeyB, FeedbackMessage(TaskId, VERDICT_VALID, KeyB))) }

InitFb ==
    /\ BsgsIdle
    /\ AggIdle
    /\ ColIdle
    /\ CandIdle
    /\ total_participants = 1
    /\ tolerable_fault_rate = 0
    /\ accepted = "idle"
    /\ feedbacks = <<>>
    /\ seen_miners = {}
    /\ last_batch = <<>>
    /\ elapsed = 0
    /\ timeout \in 0..MaxTimeout
    /\ fb_pc = "polling"
    /\ fb_hash = CandidateHash
    /\ OrchIdle

\* one iteration of the while loop: fetch, process the batch, sleep; the
\* fetch itself takes latency half seconds
FeedbackPoll(fetched, latency) ==
    /\ fb_pc = "polling"
    /\ LoopContinues(elapsed, timeout)
    /\ last_batch' = fetched
    /\ LET after == FeedbackLoop(fetched, Len(fetched), feedbacks, seen_miners,
                                 fb_hash)
       IN /\ feedbacks' = after.feedbacks
          /\ seen_miners' = after.seen_miners
    /\ elapsed' = elapsed + latency + (IF fetched = <<>> THEN 2 ELSE 1)
    /\ UNCHANGED <<timeout, fb_pc, fb_hash, total_participants, tolerable_fault_rate,
                   accepted, bsgsVars, aggVars, colVars, candVars, orchVars>>

\* the loop condition fails: return feedbacks
FeedbackReturn ==
    /\ fb_pc = "polling"
    /\ ~LoopContinues(elapsed, timeout)
    /\ fb_pc' = "returned"
    /\ UNCHANGED <<feedbacks, seen_miners, last_batch, elapsed, timeout,
                   fb_hash, total_participants, tolerable_fault_rate, accepted,
                   bsgsVars, aggVars, colVars, candVars, orchVars>>

NextFb ==
    \/ \E n \in 0..MaxFbBatch : \E fetched \in [1..n -> FeedbackPool] :
          \E latency \in 0..1 : FeedbackPoll(fetched, latency)
    \/ FeedbackReturn

SpecFb == InitFb /\ [][NextFb]_vars

OnePerMiner ==
    \A i, j \in 1..Len(feedbacks) :
       feedbacks[i].miner_pk = feedbacks[j].miner_pk => i = j

AcceptedKept ==
    /\ Len(feedbacks') >= Len(feedbacks)
    /\ SubSeq(feedbacks', 1, Len(feedbacks)) = feedbacks

(* C10: the list collect_feedback builds never holds two entries with the  *)
(* same miner_pk; a later feedback of a miner already accepted is dropped, *)
(* the loop goes on, and the accepted entry is neither replaced nor lost.  *)
C10_OneFeedbackPerMiner == []OnePerMiner /\ [][AcceptedKept]_vars

\* a well-signed feedback of an already accepted miner arrived and the
\* collection returned with that miner's first entry
C10_Witness ==
    /\ fb_pc = "returned"
    /\ \E i \in 1..Len(last_batch) : \E j \in 1..Len(feedbacks) :
          /\ last_batch[i].miner_pk = feedbacks[j].miner_pk
          /\ last_batch[i].verdict # feedbacks[j].verdict
          /\ verify_feedback_signature(last_batch[i])

(* C18: collect_feedback accepts a feedback entry only if it is bound to   *)
(* the candidate under review: feedback a miner issued for a different     *)
(* candidate hash never appears in the list it builds and returns.         *)
C18_BoundToCandidate ==
    \A i \in 1..Len(feedbacks) : feedbacks[i].issued_for = fb_hash

----------------------------------------------------------------------------
(* Miner verification and publication: run() from the candidate block on   *)

\* the accepted submissions of n participants
Accepted(n) ==
    [k \in 1..n |-> [miner_pk |-> IF k % 2 = 1 THEN KeyA ELSE KeyB,
                     score_commit |-> CommitOf(IF k % 2 = 1 THEN KeyA ELSE KeyB)]]

\* the state in which _update_and_evaluate has returned
InitVerify ==
    /\ BsgsIdle
    /\ AggIdle
    /\ CandIdle
    /\ batch = <<>>
    /\ min_participants = 1
    /\ max_participants = MAX_MINERS
    /\ \E n \in 1..MaxCand : collected = OkSubs(Accepted(n))
    /\ candidate = <<>>
    /\ sent = <<>>
    /\ progress = <<"submissions_collected", "aggregation_complete",
                    "model_evaluated">>
    /\ status = "MODEL_UPDATED"
    /\ run_pc = "form"
    /\ run_error = ""
    /\ wait_elapsed = 0
    /\ total_participants = 1
    /\ tolerable_fault_rate = 0
    /\ accepted = "idle"
    /\ feedbacks = <<>>
    /\ seen_miners = {}
    /\ last_batch = <<>>
    /\ elapsed = 0
    /\ timeout \in 1..MaxTimeout
    /\ fb_pc = "idle"
    /\ fb_hash = NoHash
    /\ ApiIdle
    /\ TaskIdle
    /\ VerIdle
    /\ UnitIdle

\* candidate = self._form_candidate(updated_model, acc, submissions); the
\* backend answers the broadcast with ok
FormCandidate(ok) ==
    /\ run_pc = "form"
    /\ LET block == build_candidate_block(TaskId, ModelHash, ModelLink, 875000000,
                                          collected.subs, AggregatorPk, 0)
       IN /\ candidate' = <<block>>
          /\ sent' = Append(sent, BroadcastCandidate(block, ok))
    /\ progress' = mark(progress, "candidate_built")
    /\ run_pc' = "verify"
    /\ UNCHANGED <<status, wait_elapsed, run_error,
                   bsgsVars, aggVars, majVars, colVars, candVars, fbVars, apiVars, taskVars, verVars, unitVars>>

\* _run_miner_verification enters collect_feedback(candidate_hash=candidate["hash"])
StartMinerVerification ==
    /\ run_pc = "verify"
    /\ fb_pc = "idle"
    /\ fb_pc' = "polling"
    /\ fb_hash' = candidate[1].hash
    /\ UNCHANGED <<seen_miners, last_batch, elapsed, timeout, runVars,
                   bsgsVars, aggVars, majVars, colVars, candVars, apiVars, taskVars, verVars, unitVars>>

\* result = has_majority(feedback, total_participants=len(participants))
RunMinerVerification ==
    /\ run_pc = "verify"
    /\ fb_pc = "returned"
    /\ LET n == Len(candidate[1].participants)
           result == has_majority(feedbacks, n, DEFAULT_TOLERABLE_FAULT_RATE)
       IN /\ total_participants' = n
          /\ tolerable_fault_rate' = DEFAULT_TOLERABLE_FAULT_RATE
          /\ accepted' = result
          /\ IF result \in {"True", "False"}
             THEN /\ progress' = mark(progress, "verification_complete")
                  /\ run_pc' = AfterVerification(result)
                  /\ run_error' = run_error
             ELSE /\ progress' = progress
                  /\ run_pc' = "raised"
                  /\ run_error' = result
    /\ UNCHANGED <<feedbacks, status, sent, candidate, wait_elapsed,
                   bsgsVars, aggVars, colVars, candVars, fbVars, apiVars, taskVars, verVars, unitVars>>

\* self._publish_candidate(candidate); the backend answers with ok
PublishCandidate(ok) ==
    /\ run_pc = "publish"
    /\ sent' = Append(sent, PublishPayload(candidate[1], ok))
    /\ progress' = mark(progress, "published")
    /\ run_pc' = "returned"
    /\ UNCHANGED <<status, candidate, wait_elapsed, run_error,
                   bsgsVars, aggVars, majVars, colVars, candVars, fbVars, apiVars, taskVars, verVars, unitVars>>

NextVerify ==
    \/ \E n \in 0..MaxFbBatch : \E fetched \in [1..n -> FeedbackPool] :
          \E latency \in 0..1 : FeedbackPoll(fetched, latency)
    \/ FeedbackReturn
    \/ \E ok \in BOOLEAN : FormCandidate(ok)
    \/ StartMinerVerification
    \/ RunMinerVerification
    \/ \E ok \in BOOLEAN : PublishCandidate(ok)

SpecVerify == InitVerify /\ [][NextVerify]_vars

Calls(name) == { i \in 1..Len(sent) : sent[i].call = name }

(* C11: the final payload is sent only after the candidate was broadcast,  *)
(* feedback was collected for that candidate's hash and has_majority       *)
(* returned true; when has_majority returns false nothing is published.    *)
C11_PublishOnlyAfterMajority ==
    /\ \A j \in Calls("publish_payload") :
          /\ \E i \in Calls("broadcast_candidate") :
                i < j /\ sent[i].hash = sent[j].hash
          /\ fb_pc = "returned"
          /\ fb_hash = sent[j].hash
          /\ accepted = "True"
    /\ accepted = "False" => Calls("publish_payload") = {} /\ run_pc = "returned"

C11_Witness ==
    /\ run_pc = "returned"
    /\ Calls("publish_payload") # {}
    /\ Len(feedbacks) >= 2

Marked(milestone) == \E i \in 1..Len(progress) : progress[i] = milestone

(* C22: the orchestrator records a step as completed only after that       *)
(* step's component call succeeded: 'candidate_built' is marked only if    *)
(* the backend accepted the candidate broadcast and 'published' only if    *)
(* the backend accepted the published payload.                             *)
C22_MarkedOnlyAfterSuccess ==
    /\ Marked("candidate_built") =>
          \E i \in Calls("broadcast_candidate") : sent[i].ok
    /\ Marked("published") =>
          \E i \in Calls("publish_payload") : sent[i].ok

(* C27: every feedback entry counted by the majority decision for a        *)
(* candidate comes from a miner whose public key is in that candidate's    *)
(* participants list, so the VALID votes counted never exceed the number   *)
(* of participants.                                                        *)
C27_VotersAreParticipants ==
    accepted \in {"True", "False"} =>
       /\ \A i \in 1..Len(feedbacks) :
             \E k \in 1..Len(candidate[1].participants) :
                candidate[1].participants[k] = feedbacks[i].miner_pk
       /\ Cardinality({ i \in 1..Len(feedbacks) : feedbacks[i].verdict = VERDICT_VALID })
             <= Len(candidate[1].participants)

----------------------------------------------------------------------------
(* api_service.py: POST /api/aggregate and the aggregator threads          *)

OtherAddress == <<"0", "b">>
TaskIds == {TaskId, OtherTaskId}
Addresses == {Address, OtherAddress}

NoRequest == [task |-> NoneStr, addr |-> NoneStr, handler |-> "none",
              thread |-> "unborn", original_task_id |-> NoneStr,
              original_agg_addr |-> NoneStr, aggregator_address |-> NoneStr]

\* Thread.is_alive(): started and not yet through run_aggregator
is_alive(req) == req.thread \notin {"unborn", "dead"}

InitApi ==
    /\ BsgsIdle
    /\ AggIdle
    /\ MajIdle
    /\ ColIdle
    /\ CandIdle
    /\ FbIdle
    /\ RunIdle
    /\ TaskIdle
    /\ VerIdle
    /\ UnitIdle
    /\ requests = [i \in 1..MaxRequests |-> NoRequest]
    /\ running_aggregators = [t \in TaskIds |-> 0]
    /\ environ = [TASK_ID |-> NoneStr, AGGREGATOR_ADDRESS |-> NoneStr]

ApiFrame ==
    UNCHANGED <<bsgsVars, aggVars, majVars, colVars, candVars, fbVars, runVars, taskVars, verVars, unitVars>>

\* a request with taskID and aggregatorAddress reaches trigger_aggregate
Arrive(i, task, addr) ==
    /\ requests[i].handler = "none"
    /\ requests' = [requests EXCEPT ![i].task = task, ![i].addr = addr,
                                    ![i].handler = "check"]
    /\ UNCHANGED <<running_aggregators, environ>>
    /\ ApiFrame

\* if task_id in running_aggregators: ... if thread.is_alive(): return 400
CheckRunning(i) ==
    /\ requests[i].handler = "check"
    /\ LET registered == running_aggregators[requests[i].task]
       IN requests' = [requests EXCEPT ![i].handler =
                          IF registered # 0 /\ is_alive(requests[registered])
                          THEN "rejected" ELSE "start"]
    /\ UNCHANGED <<running_aggregators, environ>>
    /\ ApiFrame

\* thread = threading.Thread(target=run_aggregator); thread.start()
StartThread(i) ==
    /\ requests[i].handler = "start"
    /\ requests' = [requests EXCEPT ![i].handler = "register",
                                    ![i].thread = "started"]
    /\ UNCHANGED <<running_aggregators, environ>>
    /\ ApiFrame

\* running_aggregators[task_id] = thread
Register(i) ==
    /\ requests[i].handler = "register"
    /\ running_aggregators' = [running_aggregators EXCEPT ![requests[i].task] = i]
    /\ requests' = [requests EXCEPT ![i].handler = "done"]
    /\ UNCHANGED environ
    /\ ApiFrame

\* run_aggregator: original_task_id = ..., original_agg_addr = ...
SaveOriginal(i) ==
    /\ requests[i].thread = "started"
    /\ requests' = [requests EXCEPT ![i].thread = "saved",
                                    ![i].original_task_id = environ.TASK_ID,
                                    ![i].original_agg_addr = environ.AGGREGATOR_ADDRESS]
    /\ UNCHANGED <<running_aggregators, environ>>
    /\ ApiFrame

\* os.environ["TASK_ID"] = task_id; os.environ["AGGREGATOR_ADDRESS"] = ...
SetEnviron(i) ==
    /\ requests[i].thread = "saved"
    /\ environ' = [TASK_ID |-> requests[i].task,
                   AGGREGATOR_ADDRESS |-> requests[i].addr]
    /\ requests' = [requests EXCEPT ![i].thread = "env_set"]
    /\ UNCHANGED running_aggregators
    /\ ApiFrame

\* aggregator.run(): _initialize_keys reads os.getenv("AGGREGATOR_ADDRESS")
InitializeKeys(i) ==
    /\ requests[i].thread = "env_set"
    /\ requests' = [requests EXCEPT ![i].thread = "pipeline",
                                    ![i].aggregator_address = environ.AGGREGATOR_ADDRESS]
    /\ UNCHANGED <<running_aggregators, environ>>
    /\ ApiFrame

\* run() returns or raises; finally: restore the environment, unregister
Finally(i) ==
    /\ requests[i].thread = "pipeline"
    /\ environ' = [TASK_ID |-> requests[i].original_task_id,
                   AGGREGATOR_ADDRESS |-> requests[i].original_agg_addr]
    /\ running_aggregators' = [running_aggregators EXCEPT ![requests[i].task] = 0]
    /\ requests' = [requests EXCEPT ![i].thread = "dead"]
    /\ ApiFrame

NextApi ==
    \E i \in 1..MaxRequests :
       \/ \E task \in TaskIds : \E addr \in Addresses : Arrive(i, task, addr)
       \/ CheckRunning(i)
       \/ StartThread(i)
       \/ Register(i)
       \/ SaveOriginal(i)
       \/ SetEnviron(i)
       \/ InitializeKeys(i)
       \/ Finally(i)

SpecApi == InitApi /\ [][NextApi]_vars

(* C12: at most one aggregation pipeline runs for a task id at any time;   *)
(* a request for a task whose pipeline is still running starts no second   *)
(* thread.                                                                 *)
C12_OnePipelinePerTask ==
    \A i, j \in DOMAIN requests :
       (is_alive(requests[i]) /\ is_alive(requests[j])
          /\ requests[i].task = requests[j].task) => i = j

(* C15: when pipelines for two different task ids run concurrently, the    *)
(* aggregator address each pipeline uses during key loading is the one     *)
(* supplied in its own trigger request.                                    *)
C15_OwnAggregatorAddress ==
    \A i \in DOMAIN requests :
       (/\ requests[i].thread \in {"pipeline", "dead"}
        /\ \A j \in DOMAIN requests :
              (j # i /\ requests[j].handler # "none")
                 => requests[j].task # requests[i].task)
          => requests[i].aggregator_address = requests[i].addr

----------------------------------------------------------------------------
(* TaskState: the calls that change a task's state                         *)

\* metadata dictionaries a caller may pass to load_metadata
Metadata ==
    [required_accuracy_given : BOOLEAN,
     weights : { <<>>, <<1>>, <<2>>, <<1, 2>> },
     participants : { <<>>, <<KeyA>>, <<KeyB>>, <<KeyA, KeyB>> },
     currentRound : 1..2]

InitTask ==
    /\ BsgsIdle
    /\ AggIdle
    /\ MajIdle
    /\ ColIdle
    /\ CandIdle
    /\ FbIdle
    /\ OrchIdle

TaskFrame ==
    UNCHANGED <<bsgsVars, deltas, mask, submissions, skA, skFE, pkTP, decrypted,
                aggregate, milestones, agg_error, agg_pc, majVars, colVars,
                candVars, fbVars, run_pc, progress, sent, candidate,
                wait_elapsed, run_error, apiVars, verVars, unitVars>>

\* state.load_metadata(): no metadata, nothing changes
LoadNoMetadata ==
    /\ UNCHANGED <<status, weights, taskVars>>
    /\ TaskFrame

\* state.load_metadata(md): the fields are assigned, then validated
LoadMetadata(md) ==
    /\ weights' = md.weights
    /\ participants' = md.participants
    /\ round' = md.currentRound
    /\ status' = IF validate_metadata(md.required_accuracy_given,
                                      md.weights, md.participants)
                 THEN TASK_STATE_METADATA_LOADED
                 ELSE status
    /\ TaskFrame

\* state.update_model(new_model)
UpdateModel ==
    /\ round < MaxRound
    /\ round' = round + 1
    /\ status' = update_model_status
    /\ UNCHANGED <<weights, participants>>
    /\ TaskFrame

NextTask ==
    \/ LoadNoMetadata
    \/ \E md \in Metadata : LoadMetadata(md)
    \/ UpdateModel

SpecTask == InitTask /\ [][NextTask]_vars

LifecycleStates ==
    <<TASK_STATE_INITIALIZED, TASK_STATE_METADATA_LOADED, TASK_STATE_COLLECTING,
      TASK_STATE_AGGREGATING, TASK_STATE_EVALUATED, TASK_STATE_CANDIDATE_BUILT,
      TASK_STATE_VERIFYING, TASK_STATE_PUBLISHED, TASK_STATE_ABORTED>>

IsLifecycleState(st) == \E k \in 1..Len(LifecycleStates) : LifecycleStates[k] = st

Rank(st) == CHOOSE k \in 1..Len(LifecycleStates) : LifecycleStates[k] = st

MovesForward ==
    /\ IsLifecycleState(status) /\ IsLifecycleState(status')
    /\ Rank(status') >= Rank(status) \/ status' = TASK_STATE_ABORTED

(* C13: TaskState.status is always one of the nine declared lifecycle      *)
(* states, and every change of status moves forward along their listed     *)
(* order or to ABORTED, never backward.                                    *)
C13_StatusInLifecycle == [](IsLifecycleState(status)) /\ [][MovesForward]_status

----------------------------------------------------------------------------
(* HealChainAggregator.run from its start: keys, submissions, aggregation  *)

\* a ciphertext entry of a collected submission as parse_hex_point reads it:
\* two hexadecimal fields give a point, anything else is malformed
WireEntry(s) ==
    IF CommaCount(s) = 1 /\ s[1] # "," /\ s[Len(s)] # ","
    THEN HexStr((CharOrd(s[1]) % (N - 1)) + 1)
    ELSE [enc |-> "malformed", pt |-> 0]

WireSubmissions(subs) ==
    [i \in 1..Len(subs) |->
       [ciphertext |-> [j \in 1..Len(subs[i].ciphertext) |->
                           WireEntry(subs[i].ciphertext[j])]]]

\* the submissions the backend relays while a run waits
RunPool ==
    { raw \in RawPool : raw.format = "dense" /\ raw.ciphertext.items = <<Ct1, Ct2>> }

InitRun ==
    /\ BsgsIdle
    /\ AggIdle
    /\ MajIdle
    /\ ColIdle
    /\ CandIdle
    /\ FbIdle
    /\ ApiIdle
    /\ TaskIdle
    /\ VerIdle
    /\ UnitIdle
    /\ run_pc = "start"
    /\ status = TASK_STATE_INITIALIZED
    /\ progress = <<>>
    /\ sent = <<>>
    /\ candidate = <<>>
    /\ wait_elapsed = 0
    /\ run_error = ""

RunFrame ==
    UNCHANGED <<bsgsVars, deltas, mask, submissions, decrypted, milestones,
                agg_error, agg_pc, majVars, candVars, fbVars, apiVars, verVars, unitVars>>

\* self._initialize_keys(): the keys come from the environment and the
\* backend, load_metadata() is called without metadata, the participant
\* limits come from the backend metadata or the constants
RunInitializeKeys(loaded, sk_agg, sk_fe, pk_tp, min_p, max_p) ==
    /\ run_pc = "start"
    /\ IF loaded
       THEN /\ skA' = sk_agg /\ skFE' = sk_fe /\ pkTP' = pk_tp
            /\ min_participants' = min_p
            /\ max_participants' = max_p
            /\ run_pc' = "wait"
            /\ run_error' = run_error
       ELSE /\ UNCHANGED <<skA, skFE, pkTP, min_participants, max_participants>>
            /\ run_pc' = "raised"
            /\ run_error' = "EnvironmentError"
    /\ UNCHANGED <<status, weights, taskVars, progress, sent, candidate,
                   wait_elapsed, batch, collected, aggregate>>
    /\ RunFrame

\* one iteration of the while loop of _wait_for_submissions: the fetch
\* takes latency seconds, then break or sleep(1)
WaitPoll(fetched, latency) ==
    /\ run_pc = "wait"
    /\ LoopContinues(wait_elapsed, AGGREGATION_TIMEOUT)
    /\ batch' = batch \o fetched
    /\ IF Len(batch') >= min_participants
       THEN run_pc' = "collect" /\ wait_elapsed' = wait_elapsed + latency
       ELSE run_pc' = run_pc /\ wait_elapsed' = wait_elapsed + latency + 1
    /\ UNCHANGED <<status, weights, taskVars, progress, sent, candidate, run_error,
                   skA, skFE, pkTP, min_participants, max_participants,
                   collected, aggregate>>
    /\ RunFrame

\* the loop condition fails
WaitTimeout ==
    /\ run_pc = "wait"
    /\ ~LoopContinues(wait_elapsed, AGGREGATION_TIMEOUT)
    /\ run_pc' = "collect"
    /\ UNCHANGED <<status, weights, taskVars, progress, sent, candidate, run_error,
                   wait_elapsed, skA, skFE, pkTP, batch, min_participants,
                   max_participants, collected, aggregate>>
    /\ RunFrame

\* the rest of _wait_for_submissions
RunCollect ==
    /\ run_pc = "collect"
    /\ LET valid_subs == collect_and_validate_submissions(batch, TaskId,
                             min_participants, max_participants)
       IN /\ collected' = valid_subs
          /\ IF valid_subs.status # "ok"
             THEN /\ run_pc' = "raised"
                  /\ run_error' = valid_subs.status
                  /\ progress' = progress
             ELSE IF Len(valid_subs.subs) < min_participants
             THEN /\ run_pc' = "raised"
                  /\ run_error' = "RuntimeError"
                  /\ progress' = progress
             ELSE /\ run_pc' = "aggregate"
                  /\ run_error' = run_error
                  /\ progress' = mark(progress, "submissions_collected")
    /\ UNCHANGED <<status, weights, taskVars, sent, candidate, wait_elapsed,
                   skA, skFE, pkTP, batch, min_participants, max_participants,
                   aggregate>>
    /\ RunFrame

\* self._secure_aggregate(submissions)
RunSecureAggregate ==
    /\ run_pc = "aggregate"
    /\ LET subs == WireSubmissions(collected.subs)
           agg == secure_aggregate(subs, skFE, skA, pkTP, weights)
           verdict == verify_recovered_aggregate(agg.vec, subs, weights,
                                                 skA, skFE, pkTP)
       IN /\ aggregate' = agg
          /\ IF agg.status # "ok"
             THEN /\ run_pc' = "raised"
                  /\ run_error' = agg.status
                  /\ progress' = progress
             ELSE IF verdict = "True"
             THEN /\ run_pc' = "evaluate"
                  /\ run_error' = run_error
                  /\ progress' = mark(progress, "aggregation_complete")
             ELSE /\ run_pc' = "raised"
                  /\ run_error' = IF verdict = "False" THEN "RuntimeError" ELSE verdict
                  /\ progress' = progress
    /\ UNCHANGED <<status, weights, taskVars, sent, candidate, wait_elapsed,
                   skA, skFE, pkTP, batch, min_participants, max_participants,
                   collected>>
    /\ RunFrame

NextRun ==
    \/ \E loaded \in BOOLEAN : \E sk_agg, sk_fe \in 1..2 : \E pk_tp \in {G, 2} :
          \E min_p \in {1, MIN_PARTICIPANTS, 3} : \E max_p \in {1, 2, MAX_MINERS} :
             RunInitializeKeys(loaded, sk_agg, sk_fe, pk_tp, min_p, max_p)
    \/ \E n \in 0..2 : \E fetched \in [1..n -> RunPool] :
          \E latency \in 0..1 : WaitPoll(fetched, latency)
    \/ WaitTimeout
    \/ RunCollect
    \/ RunSecureAggregate

SpecRun == InitRun /\ [][NextRun]_vars

RunEnded == run_pc \in {"raised", "returned"}

(* C14: every run of the orchestrator ends with the task status in a       *)
(* terminal state: PUBLISHED when the payload was published, ABORTED when  *)
(* the run stopped on a failure or on a rejected candidate.                *)
C14_RunEndsTerminal ==
    RunEnded =>
       status = IF Calls("publish_payload") # {} THEN TASK_STATE_PUBLISHED
                ELSE TASK_STATE_ABORTED

(* C23: when secure aggregation is invoked, the aggregation weight vector  *)
(* is aligned one to one with the validated submissions: it has one        *)
(* weight per submission handed to secure_aggregate.                       *)
C23_WeightsAligned ==
    run_pc = "aggregate" => Len(weights) = Len(collected.subs)

(* C26: the validated submissions handed to secure aggregation hold at    *)
(* most one submission per miner public key, also when the backend         *)
(* returns the same submission on successive polls.                        *)
C26_OneSubmissionPerMiner ==
    run_pc = "aggregate" =>
       \A i, j \in 1..Len(collected.subs) :
          collected.subs[i].miner_pk = collected.subs[j].miner_pk => i = j

(* C28: submission collection gives up for insufficient submissions only   *)
(* after the aggregation timeout has elapsed; while time remains and fewer *)
(* than min_participants valid submissions were fetched it keeps polling.  *)
C28_GivesUpOnlyAfterTimeout ==
    (run_pc = "raised" /\ collected.status = "RuntimeError") =>
       wait_elapsed >= MaxWait

----------------------------------------------------------------------------
(* The two polling loops, each from its first loop check                   *)

\* the feedback the backend relays while the loops are observed
PollFeedbackPool ==
    { fb \in FeedbackPool : fb.miner_pk = KeyA /\ fb.verdict = VERDICT_VALID }
    \cup { fb \in FeedbackPool : fb.miner_pk = KeyB /\ fb.verdict = VERDICT_INVALID }

InitPoll ==
    /\ BsgsIdle
    /\ AggIdle
    /\ CandIdle
    /\ ApiIdle
    /\ TaskIdle
    /\ VerIdle
    /\ UnitIdle
    /\ batch = <<>>
    /\ min_participants \in {1, MIN_PARTICIPANTS, 3}
    /\ max_participants = MAX_MINERS
    /\ collected = [status |-> "idle", subs |-> <<>>]
    /\ run_pc = "wait"
    /\ status = TASK_STATE_INITIALIZED
    /\ progress = <<>>
    /\ sent = <<>>
    /\ candidate = <<>>
    /\ wait_elapsed = 0
    /\ run_error = ""
    /\ total_participants = 1
    /\ tolerable_fault_rate = 0
    /\ accepted = "idle"
    /\ feedbacks = <<>>
    /\ seen_miners = {}
    /\ last_batch = <<>>
    /\ elapsed = 0
    /\ timeout \in 0..MaxTimeout
    /\ fb_pc = "polling"
    /\ fb_hash = CandidateHash

WaitStep ==
    \/ \E n \in 0..1 : \E fetched \in [1..n -> RunPool] :
          \E latency \in 0..1 : WaitPoll(fetched, latency)
    \/ WaitTimeout

FeedbackStep ==
    \/ \E n \in 0..1 : \E fetched \in [1..n -> PollFeedbackPool] :
          \E latency \in 0..1 : FeedbackPoll(fetched, latency)
    \/ FeedbackReturn

NextPoll == WaitStep \/ FeedbackStep

\* a fetch returns and the thread of each loop keeps running
SpecPoll == InitPoll /\ [][NextPoll]_vars /\ WF_vars(WaitStep) /\ WF_vars(FeedbackStep)

WaitPolled == batch' # batch \/ wait_elapsed' # wait_elapsed
FeedbackPolled == elapsed' # elapsed \/ last_batch' # last_batch \/ feedbacks' # feedbacks

PollsWithinTimeout ==
    /\ WaitPolled => wait_elapsed < MaxWait
    /\ FeedbackPolled => elapsed < timeout
    /\ fb_pc # "returned" /\ fb_pc' = "returned" => feedbacks' = feedbacks

(* C16: both polling loops terminate: when every fetch returns,            *)
(* _wait_for_submissions and collect_feedback poll only while their        *)
(* timeout has not elapsed at the loop check, both eventually leave the    *)
(* loop, and collect_feedback returns exactly the feedback accepted so far.*)
C16_PollingLoopsTerminate ==
    /\ <>(run_pc # "wait")
    /\ <>(fb_pc = "returned")
    /\ [][PollsWithinTimeout]_vars

\* both loops ran into their timeout and feedback had been accepted
C16_Witness ==
    /\ run_pc = "collect"
    /\ Len(batch) < min_participants
    /\ wait_elapsed >= MaxWait
    /\ fb_pc = "returned"
    /\ timeout > 0
    /\ elapsed >= timeout
    /\ feedbacks # <<>>

----------------------------------------------------------------------------
(* Aggregate verification: verify_recovered_aggregate on the points that   *)
(* ndd_fe_decrypt produced, untouched or tampered with before use          *)

InitVer ==
    /\ BsgsIdle
    /\ MajIdle
    /\ ColIdle
    /\ CandIdle
    /\ FbIdle
    /\ RunIdle
    /\ ApiIdle
    /\ TaskIdle
    /\ deltas \in SmallDeltas
    /\ mask \in 0..MaxMask
    /\ skA = 3
    /\ skFE = 1
    /\ pkTP = 3 * G
    /\ weights \in [1..Len(deltas) -> 1..MaxWeight]
    /\ Encryptable(deltas, mask, skA)
    /\ submissions = Encrypt(deltas, mask, skA)
    /\ decrypted = NoPoints
    /\ aggregate = NoVec
    /\ milestones = {}
    /\ agg_error = ""
    /\ agg_pc = "start"
    /\ ver_points = <<>>
    /\ ver_result = "pending"
    /\ UnitIdle

VerFrame ==
    UNCHANGED <<bsgsVars, deltas, mask, weights, skA, skFE, pkTP, aggregate,
                milestones, agg_error, majVars, colVars, candVars, fbVars,
                runVars, apiVars, taskVars, unitVars>>

\* recovered_points = ndd_fe_decrypt(ciphertexts, weights, pkTP, skFE, skA)
VerDecrypt ==
    /\ agg_pc = "start"
    /\ LET points == ndd_fe_decrypt(Ciphertexts, weights, pkTP, skFE, skA)
       IN /\ decrypted' = points
          /\ ver_points' = [j \in 1..Len(points.points) |-> PointObj(points.points[j])]
          /\ agg_pc' = IF points.status = "ok" THEN "decrypted" ELSE "failed"
    /\ UNCHANGED <<submissions, ver_result>>
    /\ VerFrame

\* coordinate j of the recovered points is replaced by another point
TamperCoordinate(j, pt) ==
    /\ agg_pc = "decrypted"
    /\ j \in 1..Len(ver_points)
    /\ ver_points[j] # PointObj(pt)
    /\ ver_points' = [ver_points EXCEPT ![j] = PointObj(pt)]
    /\ agg_pc' = "tampered"
    /\ UNCHANGED <<submissions, decrypted, ver_result>>
    /\ VerFrame

\* the ciphertext of submission i loses its last entry
TamperLength(i) ==
    /\ agg_pc = "decrypted"
    /\ i \in 1..Len(submissions)
    /\ LET ct == submissions[i].ciphertext
       IN submissions' = [submissions EXCEPT
                             ![i].ciphertext = SubSeq(ct, 1, Len(ct) - 1)]
    /\ agg_pc' = "tampered"
    /\ UNCHANGED <<ver_points, decrypted, ver_result>>
    /\ VerFrame

\* the list of submissions gains an entry with a longer ciphertext
TamperExtra ==
    /\ agg_pc = "decrypted"
    /\ LET ct == submissions[1].ciphertext
       IN submissions' = Append(submissions,
                                [miner_pk |-> Len(submissions) + 1,
                                 ciphertext |-> Append(ct, HexStr(G))])
    /\ agg_pc' = "tampered"
    /\ UNCHANGED <<ver_points, decrypted, ver_result>>
    /\ VerFrame

\* verify_recovered_aggregate(recovered_points, submissions, weights, keys)
Verify ==
    /\ agg_pc \in {"decrypted", "tampered"}
    /\ ver_result' = verify_recovered_aggregate(ver_points, submissions, weights,
                                                skA, skFE, pkTP)
    /\ agg_pc' = "verified"
    /\ UNCHANGED <<ver_points, submissions, decrypted>>
    /\ VerFrame

NextVer ==
    \/ VerDecrypt
    \/ \E j \in 1..MaxDim : \E pt \in {Inf, G, 2 * G, N - 1} : TamperCoordinate(j, pt)
    \/ \E i \in 1..MaxMiners : TamperLength(i)
    \/ TamperExtra
    \/ Verify

SpecVer == InitVer /\ [][NextVer]_vars

LengthDiffers ==
    \E i \in 1..Len(submissions) : Len(submissions[i].ciphertext) # Len(ver_points)

CoordinateDiffers ==
    \E j \in 1..Len(ver_points) : ver_points[j].v # decrypted.points[j]

(* C17: verify_recovered_aggregate returns true on the points that NDD-FE  *)
(* decryption produced for the same submissions, weights and keys, and     *)
(* false when a coordinate of the recovered points was replaced by another *)
(* point or when a submission's ciphertext length differs from the number  *)
(* of recovered points.                                                    *)
C17_VerifierDetectsMismatch ==
    agg_pc = "verified" =>
       ver_result = IF LengthDiffers \/ CoordinateDiffers THEN "False" ELSE "True"

----------------------------------------------------------------------------
(* _normalize_submission on sparse submissions                             *)

CoreIdle ==
    /\ BsgsIdle
    /\ AggIdle
    /\ MajIdle
    /\ ColIdle
    /\ CandIdle
    /\ FbIdle
    /\ RunIdle
    /\ ApiIdle
    /\ TaskIdle
    /\ VerIdle

SeqsUpTo(S, n) == UNION { [1..k -> S] : k \in 0..n }

\* sparse submissions as a miner may send them
SparseRaws ==
    { RawSparse("sparse", TaskId, KeyA, total, indices, items, CommitOf(KeyA), GarbageSig) :
         total \in 0..MaxSparse,
         indices \in SeqsUpTo((-1)..MaxSparse, MaxNonzero),
         items \in SeqsUpTo({Ct1, Ct2}, MaxNonzero) }

InitSparse ==
    /\ CoreIdle
    /\ KeyIdle
    /\ EvalIdle
    /\ MsgIdle
    /\ \E raw \in SparseRaws : sparse_raw = <<raw>>
    /\ sparse_out = <<>>

\* normalized = _normalize_submission(sub)
NormalizeSparse ==
    /\ sparse_out = <<>>
    /\ sparse_out' = <<normalize_submission(sparse_raw[1])>>
    /\ UNCHANGED <<sparse_raw, coreVars, keyVars, evalVars, msgVars>>

NextSparse == NormalizeSparse

SpecSparse == InitSparse /\ [][NextSparse]_vars

(* C21: for a sparse submission with total size n, index list I and value  *)
(* list V, normalisation rejects the submission when len(I) # len(V), and  *)
(* what it yields is a dense ciphertext of exactly n entries whose entry   *)
(* at position I[k] is V[k] for every k and whose positions not listed in  *)
(* I hold the encrypted-zero placeholder.                                  *)
C21_SparseToDense ==
    Len(sparse_out) = 1 =>
       LET total == sparse_raw[1].totalSize
           indices == sparse_raw[1].nonzeroIndices
           items == sparse_raw[1].ciphertext.items
           out == sparse_out[1]
           dense == out.sub.ciphertext
       IN /\ Len(indices) # Len(items) => ~out.ok
          /\ out.ok =>
                /\ Len(dense) = total
                /\ \A k \in 1..Len(indices) :
                      indices[k] \in 0..(total - 1) /\ dense[indices[k] + 1] = items[k]
                /\ \A pos \in 1..total :
                      (\A k \in 1..Len(indices) : indices[k] # pos - 1)
                         => dense[pos] = EncryptedZero

----------------------------------------------------------------------------
(* tests/test_crypto/test_bsgs.py: the procedures that exercise BSGS *)

Values == (BSGS_MIN_BOUND - Extra)..(BSGS_MAX_BOUND + Extra)

InitBSGS ==
    /\ AggIdle
    /\ MajIdle
    /\ ColIdle
    /\ CandIdle
    /\ FbIdle
    /\ OrchIdle
    /\ value \in Values
    /\ other \in Values
    /\ point = None
    /\ recovered = Pending
    /\ bsgs_pc = "start"

\* P = point_mul(G, value)
TestPointMul ==
    /\ bsgs_pc = "start"
    /\ LET P == point_mul(G, value)
       IN /\ point' = P
          /\ IF IsErr(P)
             THEN recovered' = Raised(ErrName(P)) /\ bsgs_pc' = "done_mul"
             ELSE recovered' = recovered /\ bsgs_pc' = "have_mul"
    /\ UNCHANGED <<value, other, aggVars, majVars, colVars, candVars, fbVars, orchVars>>

\* P = point_add(point_mul(G, x), point_mul(G, y))
TestPointAdd ==
    /\ bsgs_pc = "start"
    /\ LET P == point_add(point_mul(G, value), point_mul(G, other))
       IN /\ point' = P
          /\ IF IsErr(P)
             THEN recovered' = Raised(ErrName(P)) /\ bsgs_pc' = "done_add"
             ELSE recovered' = recovered /\ bsgs_pc' = "have_add"
    /\ UNCHANGED <<value, other, aggVars, majVars, colVars, candVars, fbVars, orchVars>>

\* recovered = recover_discrete_log(P)
TestRecover ==
    /\ bsgs_pc \in {"have_mul", "have_add"}
    /\ recovered' = recover_discrete_log(point)
    /\ bsgs_pc' = IF bsgs_pc = "have_mul" THEN "done_mul" ELSE "done_add"
    /\ UNCHANGED <<value, other, point, aggVars, majVars, colVars, candVars, fbVars, orchVars>>

NextBSGS == TestPointMul \/ TestPointAdd \/ TestRecover

SpecBSGS == InitBSGS /\ [][NextBSGS]_vars

----------------------------------------------------------------------------
\* x lies in the signed interval the recovery is specified for
InInterval(x) == -MaxGrad <= x /\ x <= MaxGrad

(* C1: for every integer x in [BSGS_MIN_BOUND, BSGS_MAX_BOUND], the round  *)
(* trip recover_discrete_log(point_mul(G, x)) returns exactly x.           *)
C1_RoundTrip ==
    (bsgs_pc = "done_mul" /\ InInterval(value)) => recovered = Ok(value)

(* C2: recover_discrete_log fails with an error on x*G for every x        *)
(* strictly outside [BSGS_MIN_BOUND, BSGS_MAX_BOUND], and never returns a  *)
(* value outside that interval.                                            *)
C2_OutOfRangeFails ==
    /\ (bsgs_pc = "done_mul" /\ ~InInterval(value))
          => recovered.status = "ValueError"
    /\ (bsgs_pc \in {"done_mul", "done_add"} /\ recovered.status = "ok")
          => InInterval(recovered.x)

C2_Witness ==
    /\ bsgs_pc = "done_mul"
    /\ value = BSGS_MAX_BOUND + 1
    /\ IsPoint(point)
    /\ recovered.status = "ValueError"


----------------------------------------------------------------------------
(* state/key_manager.py: KeyManager.load on the environment's key variables *)

EnvMissing == [kind |-> "missing", val |-> 0]     \* os.getenv gives None
EnvText == [kind |-> "text", val |-> 0]           \* neither int nor "x,y"
EnvInt(n) == [kind |-> "int", val |-> n]          \* str(n)
EnvPoint(k) == [kind |-> "point", val |-> k]      \* "x,y" of the point k*G
EnvOffCurve == [kind |-> "offcurve", val |-> 0]   \* "x,y" not on the curve

\* what AGGREGATOR_SK and FE_FUNCTION_KEY may hold
EnvInts == {EnvMissing, EnvText} \cup { EnvInt(n) : n \in {-1, 0, 1, 2, N, N + 1} }

\* what AGGREGATOR_PK and TP_PUBLIC_KEY may hold
EnvPoints == {EnvMissing, EnvText, EnvOffCurve} \cup { EnvPoint(k) : k \in 1..3 }

\* _load_int_env: the int or the exception raised
load_int_env(entry) ==
    CASE entry.kind = "missing" -> "EnvironmentError"
      [] entry.kind = "int" -> "ok"
      [] OTHER -> "ValueError"

\* _load_point_env: parse_point and the on-curve check
load_point_env(entry) ==
    CASE entry.kind = "missing" -> "EnvironmentError"
      [] entry.kind = "point" -> "ok"
      [] OTHER -> "ValueError"

sanity_pkA_kept(sk, pk) == pk

\* self.pkA after the comparison with skA * G in _sanity_check
sanity_pkA(sk, pk) ==
    LET derived_pkA == TinyecMul(sk, G)
    IN IF derived_pkA # pk THEN derived_pkA ELSE pk

\* KeyManager.load(backend_receiver, aggregator_address): the fields as the
\* call leaves them and how it ended; derived is the skFE derived from the
\* backend metadata, None when the derivation failed
load(env, derived, before) ==
    LET sk == env.AGGREGATOR_SK
        pk == env.AGGREGATOR_PK
        tp == env.TP_PUBLIC_KEY
        fe == env.FE_FUNCTION_KEY
        s1 == [before EXCEPT !.skA = sk.val]
        s2 == [s1 EXCEPT !.pkA = pk.val]
        s3 == [s2 EXCEPT !.pkTP = tp.val]
        s4 == [s3 EXCEPT !.skFE = IF derived # None THEN derived ELSE fe.val]
        s5 == [s4 EXCEPT !.pkA = sanity_pkA(s4.skA, s4.pkA)]
    IN IF load_int_env(sk) # "ok" THEN [before EXCEPT !.status = load_int_env(sk)]
       ELSE IF load_point_env(pk) # "ok" THEN [s1 EXCEPT !.status = load_point_env(pk)]
       ELSE IF load_point_env(tp) # "ok" THEN [s2 EXCEPT !.status = load_point_env(tp)]
       ELSE IF derived = None /\ load_int_env(fe) # "ok"
            THEN [s3 EXCEPT !.status = load_int_env(fe)]
       ELSE IF s4.skA <= 0 THEN [s4 EXCEPT !.status = "ValueError"]
       ELSE IF s5.skFE <= 0 THEN [s5 EXCEPT !.status = "ValueError"]
       ELSE [s5 EXCEPT !.status = "ok"]

\* a KeyManager as __init__ leaves it, and an environment
InitKeys ==
    /\ BsgsIdle
    /\ MajIdle
    /\ ColIdle
    /\ CandIdle
    /\ FbIdle
    /\ RunIdle
    /\ ApiIdle
    /\ TaskIdle
    /\ VerIdle
    /\ SparseIdle
    /\ EvalIdle
    /\ MsgIdle
    /\ deltas = <<>>
    /\ mask = 0
    /\ submissions = <<>>
    /\ weights = <<>>
    /\ skA = None
    /\ skFE = None
    /\ pkTP = None
    /\ pkA = None
    /\ decrypted = NoPoints
    /\ aggregate = NoVec
    /\ milestones = {}
    /\ agg_error = ""
    /\ agg_pc = "idle"
    /\ key_status = "pending"
    /\ \E env \in [AGGREGATOR_SK : EnvInts, AGGREGATOR_PK : EnvPoints,
                   TP_PUBLIC_KEY : EnvPoints, FE_FUNCTION_KEY : EnvInts] :
          key_env = <<env>>

\* self.keys.load(backend_receiver=..., aggregator_address=...)
LoadKeys(derived) ==
    /\ key_status = "pending"
    /\ LET after == load(key_env[1], derived,
                         [skA |-> skA, pkA |-> pkA, pkTP |-> pkTP, skFE |-> skFE,
                          status |-> key_status])
       IN /\ skA' = after.skA
          /\ pkA' = after.pkA
          /\ pkTP' = after.pkTP
          /\ skFE' = after.skFE
          /\ key_status' = after.status
    /\ UNCHANGED <<key_env, deltas, mask, submissions, weights, decrypted, aggregate,
                   milestones, agg_error, agg_pc, bsgsVars, majVars, colVars,
                   candVars, fbVars, runVars, apiVars, taskVars, verVars,
                   sparseVars, evalVars, msgVars>>

NextKeys == \E derived \in {None, 1, 2} : LoadKeys(derived)

SpecKeys == InitKeys /\ [][NextKeys]_vars

(* C24: after every successful KeyManager.load the aggregator public point *)
(* equals private scalar times generator, pkA = skA*G, whatever value was  *)
(* supplied externally as AGGREGATOR_PK.                                   *)
C24_PublicKeyDerived ==
    key_status = "ok" => pkA = GPow(skA)

\* a load succeeded although AGGREGATOR_PK named another point
C24_Witness ==
    /\ key_status = "ok"
    /\ key_env[1].AGGREGATOR_PK.kind = "point"
    /\ key_env[1].AGGREGATOR_PK.val # GPow(key_env[1].AGGREGATOR_SK.val)
    /\ pkA = GPow(skA)

----------------------------------------------------------------------------
(* main.py _update_and_evaluate, model/apply_update.py, model/evaluate.py  *)

\* what model.evaluate() hands back: a number in thousandths, a value that
\* is not numeric, or no evaluate method at all
NoEvaluate == [kind |-> "absent", val |-> 0]
NotNumeric == [kind |-> "text", val |-> 0]
Accuracy(a) == [kind |-> "number", val |-> a]
Outcomes == {NoEvaluate, NotNumeric} \cup { Accuracy(a) : a \in {-1, 0, 875, 1000, 1001} }

\* _validate_accuracy
validate_accuracy(acc) ==
    IF acc.kind # "number" THEN "TypeError"
    ELSE IF ~(0 <= acc.val /\ acc.val <= 1000) THEN "ValueError"
    ELSE "ok"

\* evaluate_model(model) with no evaluator, on a model that is not None
evaluate_model(outcome) ==
    IF outcome.kind # "absent" THEN validate_accuracy(outcome) ELSE "RuntimeError"

\* apply_model_update(base_model, aggregate_update): base_model is <<>> for
\* None, else <<weights>>; the weights the model object holds afterwards
apply_model_update(base_model, aggregate_update) ==
    IF base_model = <<>> THEN [status |-> "ValueError", model |-> base_model]
    ELSE IF Len(base_model[1]) # Len(aggregate_update)
         THEN [status |-> "ValueError", model |-> base_model]
    ELSE IF Len(aggregate_update) > MAX_MODEL_DIMENSION
         THEN [status |-> "ValueError", model |-> base_model]
    ELSE [status |-> "ok",
          model |-> <<[k \in 1..Len(aggregate_update) |->
                         base_model[1][k] + aggregate_update[k]]>>]

\* the state in which _secure_aggregate has returned an aggregate
InitEval ==
    /\ BsgsIdle
    /\ AggIdle
    /\ MajIdle
    /\ ColIdle
    /\ CandIdle
    /\ FbIdle
    /\ ApiIdle
    /\ VerIdle
    /\ SparseIdle
    /\ KeyIdle
    /\ MsgIdle
    /\ run_pc = "evaluate"
    /\ status \in {TASK_STATE_INITIALIZED, update_model_status}
    /\ progress = <<"submissions_collected", "aggregation_complete">>
    /\ sent = <<>>
    /\ candidate = <<>>
    /\ wait_elapsed = 0
    /\ run_error = ""
    /\ participants = <<>>
    /\ round \in 0..(MaxRound - 1)
    /\ model_weights \in {<<>>} \cup { <<w>> : w \in SeqsUpTo(0..1, MaxDim) }
    /\ \E aggregate_update \in SeqsUpTo({-1, 1}, MaxDim) :
          eval_input = <<aggregate_update>>
    /\ eval_status = "pending"

\* new_model, acc = self._update_and_evaluate(aggregate)
UpdateAndEvaluate(outcome) ==
    /\ run_pc = "evaluate"
    /\ eval_status = "pending"
    /\ LET new_model == apply_model_update(model_weights, eval_input[1])
           acc == evaluate_model(outcome)
       IN /\ model_weights' = new_model.model
          /\ IF new_model.status # "ok"
             THEN /\ eval_status' = "apply_failed"
                  /\ run_error' = new_model.status
                  /\ run_pc' = "raised"
                  /\ UNCHANGED <<round, status, progress>>
             ELSE IF acc # "ok"
             THEN /\ eval_status' = "evaluate_failed"
                  /\ run_error' = acc
                  /\ run_pc' = "raised"
                  /\ UNCHANGED <<round, status, progress>>
             ELSE /\ eval_status' = "ok"
                  /\ run_error' = run_error
                  /\ run_pc' = "form"
                  /\ round' = round + 1
                  /\ status' = update_model_status
                  /\ progress' = mark(progress, "model_evaluated")
    /\ UNCHANGED <<eval_input, participants, sent, candidate, wait_elapsed,
                   bsgsVars, aggVars, majVars, colVars, candVars, fbVars, apiVars,
                   verVars, sparseVars, keyVars, msgVars>>

NextEval == \E outcome \in Outcomes : UpdateAndEvaluate(outcome)

SpecEval == InitEval /\ [][NextEval]_vars

(* C29: if model evaluation fails in the orchestrator's update-and-evaluate *)
(* step (for example the accuracy is outside [0,1]), the task's current     *)
(* model weights and round counter are the same as before the step.         *)
C29_FailedEvaluationKeepsModel ==
    [][eval_status' = "evaluate_failed" =>
          (model_weights' = model_weights /\ round' = round)]_vars

----------------------------------------------------------------------------
(* aggregation/collector.py: the signing message of two submissions        *)

\* one ciphertext entry holding the text of Ct1 and Ct2 joined by a comma
Ct12 == Ct1 \o <<",">> \o Ct2

\* normalized submissions of miners who signed the two-entry ciphertext
MsgPool ==
    { [task_id |-> task, miner_pk |-> k, ciphertext |-> items, score_commit |-> commit,
       signature |-> HonestSig(TaskId, <<Ct1, Ct2>>, commit, k)] :
         task \in {TaskId, OtherTaskId}, k \in PublicKeys,
         items \in {<<Ct1, Ct2>>, <<Ct12>>, <<Ct1>>, <<<<"1">>>>},
         commit \in {CommitOf(KeyA), CommitOf(KeyB)} }

InitMsg ==
    /\ CoreIdle
    /\ SparseIdle
    /\ KeyIdle
    /\ EvalIdle
    /\ msg_subs \in [1..2 -> MsgPool]
    /\ msg_bytes = << <<>>, <<>> >>

\* _validate_submission_structure(sub, task_id) and, when it passes,
\* _verify_submission_signature(sub) on the i-th submission
CheckSubmission(i) ==
    /\ msg_bytes[i] = <<>>
    /\ LET sub == msg_subs[i]
           structure == validate_submission_structure(sub, TaskId)
       IN msg_bytes' = [msg_bytes EXCEPT ![i] =
             <<[structure |-> structure,
                message |-> IF structure THEN canonical_message(sub) ELSE <<>>,
                verified |-> structure /\ verify_submission_signature(sub)]>>]
    /\ UNCHANGED <<msg_subs, coreVars, sparseVars, keyVars, evalVars>>

NextMsg ==
    \/ CheckSubmission(1)
    \/ CheckSubmission(2)

SpecMsg == InitMsg /\ [][NextMsg]_vars

\* the two submissions differ in a field the message is built from
Differ(s, t) ==
    \/ s.task_id # t.task_id
    \/ s.ciphertext # t.ciphertext
    \/ s.score_commit # t.score_commit
    \/ s.miner_pk # t.miner_pk

(* C30: the canonical signing message is injective on submissions that     *)
(* pass structural validation: two accepted submissions that differ in     *)
(* task id, ciphertext list, score commitment or miner public key never    *)
(* yield the same message bytes, so a signature over one cannot verify for *)
(* the other.                                                              *)
C30_MessageInjective ==
    (/\ msg_bytes # <<>>
     /\ msg_bytes[1] # <<>>
     /\ msg_bytes[2] # <<>>
     /\ msg_bytes[1][1].structure
     /\ msg_bytes[2][1].structure
     /\ Differ(msg_subs[1], msg_subs[2]))
       => /\ msg_bytes[1][1].message # msg_bytes[2][1].message
          /\ ~(msg_bytes[1][1].verified /\ msg_bytes[2][1].verified
               /\ msg_subs[1].signature = msg_subs[2].signature)

====
